---- MODULE Spec2Model ----
(***************************************************************************)
(* Model of the adaptive traffic-signal controller of                      *)
(* "Software for Traffic Control System.py".                               *)
(*                                                                         *)
(*   Spec        one AdvancedTrafficLight driven by update_state, called   *)
(*               once per tick with the step counter the orchestrator      *)
(*               passes (process_step, lines 889 and 906), every           *)
(*               combination of the three flags, and the other arguments   *)
(*               drawn from TickLevels, TickWeathers and TickSensorLists.  *)
(*   SpecTiming  calculate_optimal_timing applied to bounded inputs.       *)
(*   SpecAdapt   a long run of normal-cycle ticks, for the adaptation      *)
(*               factor.                                                   *)
(*   SpecMonitor TrafficMonitoringSystem.process_sensor_data called with a *)
(*               new reading of one sensor per call.                       *)
(*   SpecAnalytics process_sensor_data applied once to a bounded list of   *)
(*               sensors.                                                  *)
(*   SpecHistory a long run of process_sensor_data calls, for the size of  *)
(*               the retained history.                                     *)
(*   SpecStep    process_step on one intersection and one sensor, the      *)
(*               sensor object updated in place at every step.             *)
(*   SpecPriority calculate_priority applied to every level, type and      *)
(*               weather.                                                  *)
(*   SpecEmergency registrations, unregistrations, weather changes and     *)
(*               steps of a system with two vehicles.                      *)
(*   SpecPerturb one step from sensors at the limits of their fields.      *)
(*   SpecLog     a long run of steps, for the size of the step log.        *)
(*   SpecCycle   the normal cycle of one controller under conditions that  *)
(*               do not change.                                            *)
(*   SpecScenario load_scenario and update_weather calls on a new system.  *)
(*   SpecOverride steps of a system between scenario loads, weather        *)
(*               updates, registrations and unregistrations, with an       *)
(*               intersection added during the run.                        *)
(*   SpecRecover a controller after the overrides have ended, with weak    *)
(*               fairness of the tick.                                     *)
(*   SpecStatus  steps with status queries between them.                   *)
(*   SpecGui     the simulation threads and the main thread of the GUI.    *)
(*                                                                         *)
(* Python keeps TrafficSensor objects by reference: objects is the store   *)
(* of sensor objects, addressed by position, and sensor_data_history holds *)
(* addresses into it, as the lists of the source hold references.          *)
(*                                                                         *)
(* Durations are Python floats in the source.  They are modelled as exact  *)
(* rationals <<numerator, denominator>> with a positive denominator; the   *)
(* adaptation factor, which moves in steps of 0.01, is kept in hundredths. *)
(***************************************************************************)
EXTENDS Integers, Sequences, FiniteSets, TLC

VARIABLES light, current_step, last, objects, sensor_data_history,
          active_emergencies, priority_routes, current_weather, intersections,
          metrics, step_log,
          current_scenario, self_power_outage, self_is_rush_hour, is_pedestrian_scramble,
          system_status, max_cars_per_lane, late_lights,
          is_running, threads, main_pc

\* TrafficControlGUI: the running flag, the program counter of every
\* simulation thread started so far and that of the main (Tk) thread.
guiVars == <<is_running, threads, main_pc>>

\* What load_scenario writes besides the weather: the scenario, its three
\* flags, the system status and the lane capacity kept by the configuration
\* manager.  self_power_outage and self_is_rush_hour are the fields
\* self.power_outage and self.is_rush_hour of the system, as distinct from the
\* arguments of the same names of update_state.
scenarioVars ==
    <<current_scenario, self_power_outage, self_is_rush_hour, is_pedestrian_scramble,
      system_status, max_cars_per_lane>>

\* The fields of InteractiveTrafficControlSystem and of its emergency system
\* and performance monitor.
systemVars ==
    <<active_emergencies, priority_routes, current_weather, intersections, metrics, step_log,
      current_scenario, self_power_outage, self_is_rush_hour, is_pedestrian_scramble,
      system_status, max_cars_per_lane, late_lights, is_running, threads, main_pc>>

vars == <<light, current_step, last, objects, sensor_data_history,
          active_emergencies, priority_routes, current_weather, intersections,
          metrics, step_log,
          current_scenario, self_power_outage, self_is_rush_hour, is_pedestrian_scramble,
          system_status, max_cars_per_lane, late_lights, is_running, threads, main_pc>>

(***************************************************************************)
(* Bounds of the model.                                                    *)
(***************************************************************************)
MaxStep == 6
MaxSensors == 2
MaxCount == 4
\* Ticks of a run of SpecAdapt: enough for the adaptation factor to reach
\* either limit from 1.0 and stay there.
AdaptTicks == 102
\* Calls of process_sensor_data in a run of SpecMonitor.
MonitorCalls == 9
\* Calls made to the system in a run of SpecEmergency.
EmergencyCalls == 4
\* Steps of a run of SpecPerturb, and of a run of SpecLog.
PerturbTicks == 1
LogTicks == 1002
\* Calls of process_sensor_data in a run of SpecHistory.
HistoryCalls == 150
\* Steps of a run of SpecStep.
StepTicks == 6

\* Ticks, and calls of handle_emergency_vehicle, of a run with overrides.
OverrideTicks == 3
OverrideResponses == 1

\* Ticks of such a run before which update_weather is called.
WeatherTicks == 1

\* Ticks of a run of the normal cycle under unchanged conditions.
CycleTicks == 14

\* Ticks, and status queries, of a run with status queries between ticks.
StatusTicks == 4
StatusQueries == 3

\* Ticks, simulation threads and timed display refreshes of a run of the GUI.
GuiTicks == 3
MaxThreads == 2
GuiRefreshes == 1

\* Ticks with overrides before the overrides end, and ticks of the whole run,
\* of a run that recovers to the normal cycle.
DisturbTicks == 3
RecoverTicks == 18

(***************************************************************************)
(* Exact rational arithmetic for the float expressions of the source.      *)
(***************************************************************************)
R(n, d) == <<n, d>>
RAdd(a, b) == <<a[1] * b[2] + b[1] * a[2], a[2] * b[2]>>
RMul(a, b) == <<a[1] * b[1], a[2] * b[2]>>
RLe(a, b) == a[1] * b[2] <= b[1] * a[2]
RLt(a, b) == a[1] * b[2] < b[1] * a[2]
REq(a, b) == a[1] * b[2] = b[1] * a[2]
\* Python's max(a, b) and min(a, b): the first argument wins a tie.
RMax(a, b) == IF RLt(a, b) THEN b ELSE a
RMin(a, b) == IF RLt(b, a) THEN b ELSE a

(***************************************************************************)
(* Enums (lines 75-105).                                                   *)
(***************************************************************************)
TrafficLightState == {"RED", "YELLOW", "GREEN", "PRE_GREEN", "FLASHING_RED", "FLASHING_YELLOW"}
EmergencyLevel == {"NONE", "LOW", "MEDIUM", "HIGH", "CRITICAL"}
WeatherCondition == {"CLEAR", "RAIN", "SNOW", "FOG", "STORM", "NIGHT"}

(***************************************************************************)
(* IntersectionConfig values.  SampleConfig is the one create_sample_setup *)
(* builds, DataclassConfig the dataclass defaults, FileConfig the values   *)
(* of DEFAULT_CONFIG; ShortConfig is a short cycle that a bounded run   *)
(* completes.                                                              *)
(***************************************************************************)
SampleConfig ==
    [default_green_time |-> R(25, 1), default_yellow_time |-> R(4, 1),
     default_pre_green_time |-> R(3, 2), default_red_time |-> R(25, 1),
     max_green_time |-> R(45, 1), min_green_time |-> R(8, 1)]

DataclassConfig ==
    [default_green_time |-> R(30, 1), default_yellow_time |-> R(5, 1),
     default_pre_green_time |-> R(3, 2), default_red_time |-> R(30, 1),
     max_green_time |-> R(60, 1), min_green_time |-> R(10, 1)]

FileConfig ==
    [default_green_time |-> R(10, 1), default_yellow_time |-> R(3, 1),
     default_pre_green_time |-> R(3, 2), default_red_time |-> R(10, 1),
     max_green_time |-> R(35, 1), min_green_time |-> R(3, 1)]

ShortConfig ==
    [default_green_time |-> R(4, 1), default_yellow_time |-> R(1, 1),
     default_pre_green_time |-> R(3, 2), default_red_time |-> R(2, 1),
     max_green_time |-> R(5, 1), min_green_time |-> R(3, 1)]

\* A configuration whose green bounds coincide.
PinnedConfig ==
    [default_green_time |-> R(6, 1), default_yellow_time |-> R(3, 1),
     default_pre_green_time |-> R(3, 2), default_red_time |-> R(6, 1),
     max_green_time |-> R(6, 1), min_green_time |-> R(6, 1)]

TimingConfigs == {SampleConfig, DataclassConfig, FileConfig, ShortConfig, PinnedConfig}
TickConfigs == {ShortConfig}

(***************************************************************************)
(* TrafficSensor, reduced to the two fields the controller reads.          *)
(***************************************************************************)
Sensor(c, q) == [vehicle_count |-> c, queue_length |-> q]

RECURSIVE SumCount(_)
SumCount(s) == IF s = <<>> THEN 0 ELSE Head(s).vehicle_count + SumCount(Tail(s))

RECURSIVE SumQueue(_)
SumQueue(s) == IF s = <<>> THEN 0 ELSE Head(s).queue_length + SumQueue(Tail(s))

\* Sensor lists given to calculate_optimal_timing: every list of at most
\* MaxSensors sensors counting 0..MaxCount vehicles.
TimingSensorLists ==
    UNION {[1..n -> {Sensor(c, 0) : c \in 0..MaxCount}] : n \in 0..MaxSensors}

\* Arguments update_state is called with.  The controller tells the levels
\* apart only as NONE or not, and reads the weather only to compute the green
\* time; the sensor lists are none (the configured green time applies) and
\* one empty road with a long queue (mean queue > 5).
TickLevels == {"NONE", "HIGH"}
TickWeathers == {"CLEAR", "NIGHT"}
TickSensorLists == {<<>>, <<Sensor(0, 6)>>}

(***************************************************************************)
(* AdvancedTrafficLight.__init__                                           *)
(***************************************************************************)
NewLight(config) ==
    [config |-> config,
     current_state |-> "RED",
     state_start_time |-> 0,
     green_time_elapsed |-> 0,
     cycle_count |-> 0,
     emergency_active |-> FALSE,
     last_state_change |-> 0,
     adaptation_factor |-> 100]

get_current_state_duration(self, step) == step - self.state_start_time

\* change_state counting every state change as a cycle.
change_state_count_all(self, new_state, step) ==
    [self EXCEPT !.current_state = new_state,
                 !.state_start_time = step,
                 !.last_state_change = step,
                 !.green_time_elapsed = IF new_state = "GREEN" THEN 0 ELSE @,
                 !.cycle_count = @ + 1]

change_state(self, new_state, step) ==
    LET s1 == [self EXCEPT !.current_state = new_state,
                           !.state_start_time = step,
                           !.last_state_change = step]
    IN IF s1.current_state = "GREEN"
       THEN [s1 EXCEPT !.green_time_elapsed = 0, !.cycle_count = @ + 1]
       ELSE s1

(***************************************************************************)
(* calculate_optimal_timing, lines 554-570: the density-based green time.  *)
(***************************************************************************)
\* The rush-hour multiplier applied before the precipitation bonus.
DensityGreen_rush_first(sensor_data, weather, is_rush_hour, is_night) ==
    LET avg_vehicle_count == R(SumCount(sensor_data), Len(sensor_data))
        g0 == RAdd(R(3, 1), RMul(avg_vehicle_count, R(7, 2)))
        g1 == IF is_rush_hour THEN RMul(g0, R(6, 5)) ELSE g0
        g2 == IF weather \in {"RAIN", "SNOW", "STORM"} THEN RAdd(g1, R(4, 1)) ELSE g1
        g3 == IF is_night THEN RMul(g2, R(4, 5)) ELSE g2
    IN g3

DensityGreen(sensor_data, weather, is_rush_hour, is_night) ==
    LET avg_vehicle_count == R(SumCount(sensor_data), Len(sensor_data))
        g0 == RAdd(R(3, 1), RMul(avg_vehicle_count, R(7, 2)))
        g1 == IF weather \in {"RAIN", "SNOW", "STORM"} THEN RAdd(g0, R(4, 1)) ELSE g0
        g2 == IF is_rush_hour THEN RMul(g1, R(6, 5)) ELSE g1
        g3 == IF is_night THEN RMul(g2, R(4, 5)) ELSE g2
    IN g3

\* An empty sensor list treated as zero density.
calculate_optimal_timing_zero_density(self, sensor_data, weather, emergency_level, is_rush_hour, is_night) ==
    LET t0 == [green |-> self.config.default_green_time,
               yellow |-> self.config.default_yellow_time,
               pre_green |-> self.config.default_pre_green_time,
               red |-> self.config.default_red_time]
        data == IF sensor_data # <<>> THEN sensor_data ELSE <<Sensor(0, 0)>>
        t2 == [t0 EXCEPT !.green = DensityGreen(data, weather, is_rush_hour, is_night)]
        t3 == [t2 EXCEPT !.green = RMax(self.config.min_green_time,
                                        RMin(self.config.max_green_time, t2.green))]
    IN [timing |-> t3,
        self |-> [self EXCEPT !.emergency_active = (emergency_level # "NONE")]]

\* The bounds of lines 572-574 left out.
calculate_optimal_timing_unclamped(self, sensor_data, weather, emergency_level, is_rush_hour, is_night) ==
    LET t0 == [green |-> self.config.default_green_time,
               yellow |-> self.config.default_yellow_time,
               pre_green |-> self.config.default_pre_green_time,
               red |-> self.config.default_red_time]
        t1 == IF emergency_level # "NONE"
              THEN [t0 EXCEPT !.green = self.config.min_green_time]
              ELSE t0
        t2 == IF sensor_data # <<>>
              THEN [t1 EXCEPT !.green = DensityGreen(sensor_data, weather, is_rush_hour, is_night)]
              ELSE t1
    IN [timing |-> t2,
        self |-> [self EXCEPT !.emergency_active = (emergency_level # "NONE")]]

\* The returned timing, and the controller with its emergency_active flag set.
calculate_optimal_timing(self, sensor_data, weather, emergency_level, is_rush_hour, is_night) ==
    LET t0 == [green |-> self.config.default_green_time,
               yellow |-> self.config.default_yellow_time,
               pre_green |-> self.config.default_pre_green_time,
               red |-> self.config.default_red_time]
        t1 == IF emergency_level # "NONE"
              THEN [t0 EXCEPT !.green = self.config.min_green_time]
              ELSE t0
        t2 == IF sensor_data # <<>>
              THEN [t1 EXCEPT !.green = DensityGreen(sensor_data, weather, is_rush_hour, is_night)]
              ELSE t1
        t3 == [t2 EXCEPT !.green = RMax(self.config.min_green_time,
                                        RMin(self.config.max_green_time, t2.green))]
    IN [timing |-> t3,
        self |-> [self EXCEPT !.emergency_active = (emergency_level # "NONE")]]

\* The factor moved without its cap and floor.
_update_adaptation_factor_unbounded(self, sensor_data) ==
    IF sensor_data = <<>> THEN self
    ELSE LET total == SumQueue(sensor_data)
             n == Len(sensor_data)
         IN IF total > 5 * n THEN [self EXCEPT !.adaptation_factor = @ + 1]
            ELSE IF total < 2 * n THEN [self EXCEPT !.adaptation_factor = @ - 1]
            ELSE self

_update_adaptation_factor(self, sensor_data) ==
    IF sensor_data = <<>> THEN self
    ELSE LET total == SumQueue(sensor_data)
             n == Len(sensor_data)
         IN IF total > 5 * n
            THEN [self EXCEPT !.adaptation_factor = IF @ + 1 < 200 THEN @ + 1 ELSE 200]
            ELSE IF total < 2 * n
            THEN [self EXCEPT !.adaptation_factor = IF @ - 1 > 50 THEN @ - 1 ELSE 50]
            ELSE self

(***************************************************************************)
(* update_state, lines 607-624: the normal adaptive cycle.                 *)
(***************************************************************************)
\* The transitions firing only once the elapsed time exceeds the duration.
NormalCycle_strict(self, step, sensor_data, weather, emergency_level, is_rush_hour) ==
    LET r == calculate_optimal_timing(self, sensor_data, weather, emergency_level,
                                      is_rush_hour, weather = "NIGHT")
        timing == r.timing
        s0 == r.self
        d == get_current_state_duration(s0, step)
        s1 == CASE s0.current_state = "RED" ->
                     IF RLt(timing.red, R(d, 1)) THEN change_state(s0, "PRE_GREEN", step) ELSE s0
                [] s0.current_state = "PRE_GREEN" ->
                     IF RLt(timing.pre_green, R(d, 1)) THEN change_state(s0, "GREEN", step) ELSE s0
                [] s0.current_state = "GREEN" ->
                     LET sg == [s0 EXCEPT !.green_time_elapsed = d]
                     IN IF RLt(timing.green, R(d, 1)) THEN change_state(sg, "YELLOW", step) ELSE sg
                [] s0.current_state \in {"YELLOW", "FLASHING_YELLOW"} ->
                     IF RLt(timing.yellow, R(d, 1)) THEN change_state(s0, "RED", step) ELSE s0
                [] OTHER -> s0
    IN _update_adaptation_factor(s1, sensor_data)
\* A normal cycle that never leaves FLASHING_YELLOW.
NormalCycle_stuck_flashing(self, step, sensor_data, weather, emergency_level, is_rush_hour) ==
    LET r == calculate_optimal_timing(self, sensor_data, weather, emergency_level,
                                      is_rush_hour, weather = "NIGHT")
        timing == r.timing
        s0 == r.self
        d == get_current_state_duration(s0, step)
        s1 == CASE s0.current_state = "RED" ->
                     IF RLe(timing.red, R(d, 1)) THEN change_state(s0, "PRE_GREEN", step) ELSE s0
                [] s0.current_state = "PRE_GREEN" ->
                     IF RLe(timing.pre_green, R(d, 1)) THEN change_state(s0, "GREEN", step) ELSE s0
                [] s0.current_state = "GREEN" ->
                     LET sg == [s0 EXCEPT !.green_time_elapsed = d]
                     IN IF RLe(timing.green, R(d, 1)) THEN change_state(sg, "YELLOW", step) ELSE sg
                [] s0.current_state = "YELLOW" ->
                     IF RLe(timing.yellow, R(d, 1)) THEN change_state(s0, "RED", step) ELSE s0
                [] OTHER -> s0
    IN _update_adaptation_factor(s1, sensor_data)

NormalCycle(self, step, sensor_data, weather, emergency_level, is_rush_hour) ==
    LET r == calculate_optimal_timing(self, sensor_data, weather, emergency_level,
                                      is_rush_hour, weather = "NIGHT")
        timing == r.timing
        s0 == r.self
        d == get_current_state_duration(s0, step)
        s1 == CASE s0.current_state = "RED" ->
                     IF RLe(timing.red, R(d, 1)) THEN change_state(s0, "PRE_GREEN", step) ELSE s0
                [] s0.current_state = "PRE_GREEN" ->
                     IF RLe(timing.pre_green, R(d, 1)) THEN change_state(s0, "GREEN", step) ELSE s0
                [] s0.current_state = "GREEN" ->
                     LET sg == [s0 EXCEPT !.green_time_elapsed = d]
                     IN IF RLe(timing.green, R(d, 1)) THEN change_state(sg, "YELLOW", step) ELSE sg
                [] s0.current_state \in {"YELLOW", "FLASHING_YELLOW"} ->
                     IF RLe(timing.yellow, R(d, 1)) THEN change_state(s0, "RED", step) ELSE s0
                [] OTHER -> s0
    IN _update_adaptation_factor(s1, sensor_data)

(***************************************************************************)
(* update_state, lines 586-605: the three override branches.               *)
(***************************************************************************)
OutageBranch_restart(self, step) ==
    [self EXCEPT !.current_state = IF step % 2 = 0 THEN "FLASHING_YELLOW" ELSE "RED",
                 !.state_start_time = step]

OutageBranch_flipped(self, step) ==
    [self EXCEPT !.current_state = IF step % 2 = 0 THEN "RED" ELSE "FLASHING_YELLOW"]

OutageBranch(self, step) ==
    [self EXCEPT !.current_state = IF step % 2 = 0 THEN "FLASHING_YELLOW" ELSE "RED"]

ScrambleBranch_once(self, step) ==
    IF self.current_state # "RED"
    THEN [self EXCEPT !.current_state = "RED", !.state_start_time = step]
    ELSE self

ScrambleBranch(self, step) ==
    [self EXCEPT !.current_state = "RED", !.state_start_time = step]

EmergencyBranch_restart(self, step) == change_state(self, "GREEN", step)

EmergencyBranch(self, step) ==
    IF self.current_state # "GREEN" THEN change_state(self, "GREEN", step) ELSE self

(***************************************************************************)
(* update_state: the controller after the call, and the branch that        *)
(* handled it.                                                             *)
(***************************************************************************)
update_state_scramble_first(self, step, sensor_data, weather, emergency_level, power_outage, is_scramble, is_rush_hour) ==
    IF is_scramble
    THEN [branch |-> "scramble", self |-> ScrambleBranch(self, step)]
    ELSE IF power_outage
    THEN [branch |-> "outage", self |-> OutageBranch(self, step)]
    ELSE IF emergency_level # "NONE"
    THEN [branch |-> "emergency", self |-> EmergencyBranch(self, step)]
    ELSE [branch |-> "normal",
          self |-> NormalCycle(self, step, sensor_data, weather, emergency_level, is_rush_hour)]

update_state(self, step, sensor_data, weather, emergency_level, power_outage, is_scramble, is_rush_hour) ==
    IF power_outage
    THEN [branch |-> "outage", self |-> OutageBranch(self, step)]
    ELSE IF is_scramble
    THEN [branch |-> "scramble", self |-> ScrambleBranch(self, step)]
    ELSE IF emergency_level # "NONE"
    THEN [branch |-> "emergency", self |-> EmergencyBranch(self, step)]
    ELSE [branch |-> "normal",
          self |-> NormalCycle(self, step, sensor_data, weather, emergency_level, is_rush_hour)]

(***************************************************************************)
(* Spec: one controller, one update_state call per tick.  last records the *)
(* arguments of the latest call, the controller before it and the branch.  *)
(***************************************************************************)
NoCall == [op |-> "none"]

\* TrafficControlGUI.__init__, lines 1021-1022: not running, no thread.
NewGui ==
    /\ is_running = FALSE
    /\ threads = <<>>
    /\ main_pc = "idle"

\* InteractiveTrafficControlSystem.__init__, lines 816-821, and the default
\* lane capacity of ConfigurationManager: scenario DAY with its three flags
\* off and status NORMAL.  late_lights holds the controllers of the
\* intersections added after the run has begun, each with its id.
NewScenario ==
    /\ current_scenario = "DAY"
    /\ self_power_outage = FALSE
    /\ self_is_rush_hour = FALSE
    /\ is_pedestrian_scramble = FALSE
    /\ system_status = "NORMAL"
    /\ max_cars_per_lane = 4
    /\ late_lights = <<>>
    /\ NewGui

\* InteractiveTrafficControlSystem.__init__: no emergency, no route, CLEAR
\* weather, no intersection, the metrics at 0 and an empty step log.
NewSystem ==
    /\ NewScenario
    /\ active_emergencies = <<>>
    /\ priority_routes = [id \in {} |-> <<>>]
    /\ current_weather = "CLEAR"
    /\ intersections = <<>>
    /\ metrics = [total_steps |-> 0, total_vehicles_processed |-> 0,
                  emergency_responses |-> 0, anomalies_detected |-> 0]
    /\ step_log = <<>>

\* TrafficMonitoringSystem.__init__: no sensor object yet, an empty history.
NoMonitor ==
    /\ objects = <<>>
    /\ sensor_data_history = [id \in {} |-> <<>>]

Init ==
    /\ light \in {NewLight(c) : c \in TickConfigs}
    /\ current_step = 0
    /\ last = NoCall
    /\ NoMonitor
    /\ NewSystem

Tick ==
    /\ current_step < MaxStep
    /\ \E sensor_data \in TickSensorLists, weather \in TickWeathers,
          emergency_level \in TickLevels,
          power_outage \in BOOLEAN, is_scramble \in BOOLEAN, is_rush_hour \in BOOLEAN :
          LET step == current_step + 1
              r == update_state(light, step, sensor_data, weather, emergency_level,
                                power_outage, is_scramble, is_rush_hour)
          IN /\ current_step' = step
             /\ light' = r.self
             /\ last' = [op |-> "update_state", step |-> step, sensor_data |-> sensor_data,
                         weather |-> weather, emergency_level |-> emergency_level,
                         power_outage |-> power_outage, is_scramble |-> is_scramble,
                         is_rush_hour |-> is_rush_hour, pre |-> light, branch |-> r.branch]
    /\ UNCHANGED <<objects, sensor_data_history>>
    /\ UNCHANGED systemVars

Next == Tick

Spec == Init /\ [][Next]_vars

(***************************************************************************)
(* SpecTiming: calculate_optimal_timing applied once to arguments drawn    *)
(* from bounded sets.                                                      *)
(***************************************************************************)
InitTiming ==
    /\ light \in {NewLight(c) : c \in TimingConfigs}
    /\ current_step = 0
    /\ last \in [op : {"args"}, sensor_data : TimingSensorLists, weather : WeatherCondition,
                 emergency_level : EmergencyLevel, is_rush_hour : BOOLEAN, is_night : BOOLEAN]
    /\ NoMonitor
    /\ NewSystem

CallTiming ==
    /\ last.op = "args"
    /\ LET r == calculate_optimal_timing(light, last.sensor_data, last.weather,
                                         last.emergency_level, last.is_rush_hour, last.is_night)
       IN /\ light' = r.self
          /\ last' = [op |-> "calculate_optimal_timing", sensor_data |-> last.sensor_data,
                      weather |-> last.weather, emergency_level |-> last.emergency_level,
                      is_rush_hour |-> last.is_rush_hour, is_night |-> last.is_night,
                      pre |-> light, timing |-> r.timing]
    /\ UNCHANGED <<current_step, objects, sensor_data_history>>
    /\ UNCHANGED systemVars

NextTiming == CallTiming

SpecTiming == InitTiming /\ [][NextTiming]_vars

(***************************************************************************)
(* SpecAdapt: one controller ticked through the normal cycle (no override, *)
(* CLEAR weather) for AdaptTicks ticks, the single sensor showing a short, *)
(* a medium or a long queue at each tick.  last.only_long tells whether    *)
(* every tick so far showed the long queue.                                *)
(***************************************************************************)
AdaptSensorLists == {<<Sensor(0, 1)>>, <<Sensor(0, 3)>>, <<Sensor(0, 6)>>}

InitAdapt ==
    /\ light = NewLight(ShortConfig)
    /\ current_step = 0
    /\ last = [op |-> "none", only_long |-> TRUE]
    /\ NoMonitor
    /\ NewSystem

TickAdapt ==
    /\ current_step < AdaptTicks
    /\ \E sensor_data \in AdaptSensorLists :
          LET step == current_step + 1
              r == update_state(light, step, sensor_data, "CLEAR", "NONE", FALSE, FALSE, FALSE)
          IN /\ current_step' = step
             /\ light' = r.self
             /\ last' = [op |-> "update_state", step |-> step, sensor_data |-> sensor_data,
                         pre |-> light, branch |-> r.branch,
                         only_long |-> (last.only_long /\ sensor_data = <<Sensor(0, 6)>>)]
    /\ UNCHANGED <<objects, sensor_data_history>>
    /\ UNCHANGED systemVars

NextAdapt == TickAdapt

SpecAdapt == InitAdapt /\ [][NextAdapt]_vars

(***************************************************************************)
(* TrafficMonitoringSystem.  A TrafficSensor object carries the fields     *)
(* process_sensor_data reads; speeds are integers.  The float statistics   *)
(* are kept exact: the mean of n counts of sum S is S / n, and the sample  *)
(* variance (the square of statistics.stdev) is the sum of the squared     *)
(* deviations from the mean over n - 1.  A z-score is compared through its *)
(* square, and an expected range (mean - 2 s, mean + 2 s) is recorded by   *)
(* its centre and the square of its half width, 4 s^2.                     *)
(***************************************************************************)
TrafficSensor(id, c, v, q, a) ==
    [id |-> id, vehicle_count |-> c, average_speed |-> v, queue_length |-> q, is_active |-> a]

anomaly_threshold == 2

RECURSIVE SumSpeed(_)
SumSpeed(s) == IF s = <<>> THEN 0 ELSE Head(s).average_speed + SumSpeed(Tail(s))

RECURSIVE Sum(_)
Sum(xs) == IF xs = <<>> THEN 0 ELSE Head(xs) + Sum(Tail(xs))

\* The objects a list of references points to.
Deref(objs, refs) == [i \in 1..Len(refs) |-> objs[refs[i]]]

\* s[-n:]
LastN(s, n) == IF Len(s) <= n THEN s ELSE SubSeq(s, Len(s) - n + 1, Len(s))

\* [s.vehicle_count for s in history[-10:]]
VehicleCounts(objs, history) ==
    LET window == Deref(objs, LastN(history, 10))
    IN [i \in 1..Len(window) |-> window[i].vehicle_count]

\* statistics.mean
Mean(xs) == R(Sum(xs), Len(xs))

\* Sum of the squared deviations (x - S / n)^2, times n^2.
RECURSIVE SumSqDev(_, _, _)
SumSqDev(xs, S, n) ==
    IF xs = <<>> THEN 0
    ELSE (n * Head(xs) - S) * (n * Head(xs) - S) + SumSqDev(Tail(xs), S, n)

\* The variance over all n values instead of the sample variance.
Variance_population(xs) ==
    LET n == Len(xs) IN R(SumSqDev(xs, Sum(xs), n), n * n * n)

\* statistics.stdev, squared.
Variance(xs) ==
    LET n == Len(xs) IN R(SumSqDev(xs, Sum(xs), n), n * n * (n - 1))

\* The record _detect_anomalies appends for a flagged sensor.
AnomalyRecord(sensor, mean_count, variance) ==
    [sensor_id |-> sensor.id, type |-> "vehicle_count", value |-> sensor.vehicle_count,
     expected_range |-> [centre |-> mean_count,
                         half_width_sq |-> RMul(R(2 * 2, 1), variance)]]

\* The detector starting at three retained readings.
SensorAnomalies_from_three(objs, history, sensor) ==
    IF Len(history) < 3 THEN <<>>
    ELSE LET vehicle_counts == VehicleCounts(objs, history)
             mean_count == Mean(vehicle_counts)
             variance == Variance(vehicle_counts)
             dev == RAdd(R(sensor.vehicle_count, 1), R(-mean_count[1], mean_count[2]))
         IN IF /\ RLt(R(0, 1), variance)
               /\ RLt(RMul(R(anomaly_threshold * anomaly_threshold, 1), variance), RMul(dev, dev))
            THEN <<AnomalyRecord(sensor, mean_count, variance)>>
            ELSE <<>>

\* The detector without its test of the standard deviation.
SensorAnomalies_any_stdev(objs, history, sensor) ==
    IF Len(history) < 5 THEN <<>>
    ELSE LET vehicle_counts == VehicleCounts(objs, history)
             mean_count == Mean(vehicle_counts)
             variance == Variance(vehicle_counts)
             dev == RAdd(R(sensor.vehicle_count, 1), R(-mean_count[1], mean_count[2]))
         IN IF RLt(RMul(R(anomaly_threshold * anomaly_threshold, 1), variance), RMul(dev, dev))
            THEN <<AnomalyRecord(sensor, mean_count, variance)>>
            ELSE <<>>

\* The body of the loop of _detect_anomalies for one sensor, given the
\* sensor's retained history: the records it appends (none or one).
SensorAnomalies(objs, history, sensor) ==
    IF Len(history) < 5 THEN <<>>
    ELSE LET vehicle_counts == VehicleCounts(objs, history)
         IN IF vehicle_counts = <<>> THEN <<>>
            ELSE LET mean_count == Mean(vehicle_counts)
                 IN IF ~(Len(vehicle_counts) > 1) THEN <<>>
                    ELSE LET variance == Variance(vehicle_counts)
                             dev == RAdd(R(sensor.vehicle_count, 1),
                                         R(-mean_count[1], mean_count[2]))
                         IN IF ~RLt(R(0, 1), variance) THEN <<>>
                            ELSE IF RLt(RMul(R(anomaly_threshold * anomaly_threshold, 1), variance),
                                        RMul(dev, dev))
                                 THEN <<AnomalyRecord(sensor, mean_count, variance)>>
                                 ELSE <<>>

\* if sensor.id not in self.sensor_data_history: ...[sensor.id] = []
WithKey(history, id) ==
    IF id \in DOMAIN history THEN history
    ELSE [k \in DOMAIN history \cup {id} |-> IF k = id THEN <<>> ELSE history[k]]

RECURSIVE _detect_anomalies(_, _, _)
_detect_anomalies(history, objs, sensors) ==
    IF sensors = <<>> THEN [anomalies |-> <<>>, history |-> history]
    ELSE LET sensor == objs[Head(sensors)]
             keyed == WithKey(history, sensor.id)
             found == SensorAnomalies(objs, keyed[sensor.id], sensor)
             rest == _detect_anomalies(keyed, objs, Tail(sensors))
         IN [anomalies |-> found \o rest.anomalies, history |-> rest.history]

\* A history that is never trimmed.
RECURSIVE _update_history_keep_all(_, _, _)
_update_history_keep_all(history, objs, sensors) ==
    IF sensors = <<>> THEN history
    ELSE LET id == objs[Head(sensors)].id
             keyed == WithKey(history, id)
         IN _update_history_keep_all([keyed EXCEPT ![id] = Append(@, Head(sensors))],
                                     objs, Tail(sensors))

RECURSIVE _update_history(_, _, _)
_update_history(history, objs, sensors) ==
    IF sensors = <<>> THEN history
    ELSE LET id == objs[Head(sensors)].id
             keyed == WithKey(history, id)
             appended == Append(keyed[id], Head(sensors))
             kept == IF Len(appended) > 100 THEN LastN(appended, 100) ELSE appended
         IN _update_history([keyed EXCEPT ![id] = kept], objs, Tail(sensors))

\* Analytics whose averages run over every sensor, active or not.
process_sensor_data_all_sensors(history, objs, sensors) ==
    LET all == Deref(objs, sensors)
        active_sensors == SelectSeq(all, LAMBDA x : x.is_active)
        detected == _detect_anomalies(history, objs, sensors)
    IN IF sensors = <<>>
       THEN [processed_data |-> [total_vehicles |-> 0, average_speed |-> R(0, 1),
                                 congestion_level |-> R(0, 1), anomalies |-> <<>>],
             history |-> history]
       ELSE [processed_data |->
                [total_vehicles |-> IF active_sensors # <<>> THEN SumCount(all) ELSE 0,
                 average_speed |-> IF active_sensors # <<>>
                                   THEN R(SumSpeed(all), Len(all))
                                   ELSE R(0, 1),
                 congestion_level |-> IF active_sensors # <<>>
                                      THEN RMin(R(1, 1), R(SumQueue(all), 10 * Len(all)))
                                      ELSE R(0, 1),
                 anomalies |-> detected.anomalies],
             history |-> _update_history(detected.history, objs, sensors)]

\* process_sensor_data on a list of references to sensor objects: the
\* analytics it returns and the history it leaves.
process_sensor_data(history, objs, sensors) ==
    LET all == Deref(objs, sensors)
        total_vehicles == SumCount(all)
        active_sensors == SelectSeq(all, LAMBDA x : x.is_active)
        detected == _detect_anomalies(history, objs, sensors)
    IN IF sensors = <<>>
       THEN [processed_data |-> [total_vehicles |-> 0, average_speed |-> R(0, 1),
                                 congestion_level |-> R(0, 1), anomalies |-> <<>>],
             history |-> history]
       ELSE [processed_data |->
                [total_vehicles |-> IF active_sensors # <<>> THEN total_vehicles ELSE 0,
                 average_speed |-> IF active_sensors # <<>>
                                   THEN R(SumSpeed(active_sensors), Len(active_sensors))
                                   ELSE R(0, 1),
                 congestion_level |-> IF active_sensors # <<>>
                                      THEN RMin(R(1, 1), R(SumQueue(active_sensors),
                                                           10 * Len(active_sensors)))
                                      ELSE R(0, 1),
                 anomalies |-> detected.anomalies],
             history |-> _update_history(detected.history, objs, sensors)]

(***************************************************************************)
(* SpecMonitor: process_sensor_data called MonitorCalls times, each call   *)
(* with a new reading (a new TrafficSensor object) of sensor "S1".  The    *)
(* monitor starts new, or after the calls that took the readings of one of *)
(* WarmReadings.  last records the reading, the history before the call    *)
(* and the analytics.                                                      *)
(***************************************************************************)
MonitorCounts == {5, 6, 20}
WarmReadings == {<<>>, <<5, 5, 5>>}

Reading(c) == TrafficSensor("S1", c, 30, 2, TRUE)

\* The monitor after one process_sensor_data call per count, in order.
RECURSIVE MonitorAfter(_)
MonitorAfter(counts) ==
    IF counts = <<>> THEN [objects |-> <<>>, history |-> [id \in {} |-> <<>>]]
    ELSE LET before == MonitorAfter(SubSeq(counts, 1, Len(counts) - 1))
             objs == Append(before.objects, Reading(counts[Len(counts)]))
         IN [objects |-> objs,
             history |-> process_sensor_data(before.history, objs, <<Len(objs)>>).history]

InitMonitor ==
    /\ light = NewLight(ShortConfig)
    /\ current_step = 0
    /\ last = NoCall
    /\ \E w \in WarmReadings :
          /\ objects = MonitorAfter(w).objects
          /\ sensor_data_history = MonitorAfter(w).history
    /\ NewSystem

CallMonitor ==
    /\ current_step < MonitorCalls
    /\ \E c \in MonitorCounts :
          LET sensor == Reading(c)
              objs == Append(objects, sensor)
              r == process_sensor_data(sensor_data_history, objs, <<Len(objs)>>)
          IN /\ objects' = objs
             /\ sensor_data_history' = r.history
             /\ last' = [op |-> "process_sensor_data", sensor |-> sensor,
                         pre |-> IF "S1" \in DOMAIN sensor_data_history
                                 THEN sensor_data_history["S1"] ELSE <<>>,
                         processed_data |-> r.processed_data]
    /\ current_step' = current_step + 1
    /\ UNCHANGED light
    /\ UNCHANGED systemVars

NextMonitor == CallMonitor

SpecMonitor == InitMonitor /\ [][NextMonitor]_vars

(***************************************************************************)
(* SpecAnalytics: process_sensor_data applied once, on a new monitor, to a *)
(* list of at most MaxSensors sensors drawn from AnalyticsSensors.         *)
(***************************************************************************)
SensorIds == <<"S1", "S2", "S3">>

AnalyticsSensors(id) ==
    {TrafficSensor(id, c, v, q, a) : c \in {0, 3}, v \in {20, 50}, q \in {0, 4, 15}, a \in BOOLEAN}

AnalyticsSensorLists ==
    UNION {{s \in [1..n -> UNION {AnalyticsSensors(SensorIds[i]) : i \in 1..n}] :
               \A i \in 1..n : s[i].id = SensorIds[i]} : n \in 0..MaxSensors}

InitAnalytics ==
    /\ light = NewLight(ShortConfig)
    /\ current_step = 0
    /\ last = [op |-> "args"]
    /\ objects \in AnalyticsSensorLists
    /\ sensor_data_history = [id \in {} |-> <<>>]
    /\ NewSystem

CallAnalytics ==
    /\ last.op = "args"
    /\ LET r == process_sensor_data(sensor_data_history, objects,
                                    [i \in 1..Len(objects) |-> i])
       IN /\ sensor_data_history' = r.history
          /\ last' = [op |-> "process_sensor_data", processed_data |-> r.processed_data]
    /\ UNCHANGED <<light, current_step, objects>>
    /\ UNCHANGED systemVars

NextAnalytics == CallAnalytics

SpecAnalytics == InitAnalytics /\ [][NextAnalytics]_vars

(***************************************************************************)
(* SpecHistory: HistoryCalls calls of process_sensor_data, each with a new *)
(* reading of sensor "S1"; sensor "S2" joins at some call or never, and is  *)
(* read at every call from then on.                                        *)
(***************************************************************************)
InitHistory ==
    /\ light = NewLight(ShortConfig)
    /\ current_step = 0
    /\ last = NoCall
    /\ NoMonitor
    /\ NewSystem

CallHistory ==
    /\ current_step < HistoryCalls
    /\ \E both \in {b \in BOOLEAN : "S2" \in DOMAIN sensor_data_history => b} :
          LET first == Append(objects, TrafficSensor("S1", 5, 30, 2, TRUE))
              objs == IF both THEN Append(first, TrafficSensor("S2", 5, 30, 2, TRUE)) ELSE first
              sensors == IF both THEN <<Len(first), Len(objs)>> ELSE <<Len(first)>>
              r == process_sensor_data(sensor_data_history, objs, sensors)
          IN /\ objects' = objs
             /\ sensor_data_history' = r.history
             /\ last' = [op |-> "process_sensor_data", pre |-> sensor_data_history,
                         sensors |-> sensors]
    /\ current_step' = current_step + 1
    /\ UNCHANGED light
    /\ UNCHANGED systemVars

NextHistory == CallHistory

SpecHistory == InitHistory /\ [][NextHistory]_vars

(***************************************************************************)
(* SpecStep: process_step on a system of one intersection and one sensor.  *)
(* The step perturbs the sensor object in place (the random draws are the  *)
(* deltas), hands the sensor list to the monitor and then to the           *)
(* controller; weather, emergency level and flags are the constructor's.   *)
(* In SpecStep last records the counts the detector read, if it read any   *)
(* (samples), and, for every history entry, the count the sensor had when  *)
(* the entry was appended.                                                 *)
(***************************************************************************)
CountDeltas == {-2, 3}
SpeedDeltas == {5}
QueueDeltas == {-1, 2}

Max(a, b) == IF a >= b THEN a ELSE b
Min(a, b) == IF a <= b THEN a ELSE b

\* The update without its limits.
Perturb_unclamped(sensor, dc, dv, dq) ==
    [sensor EXCEPT !.vehicle_count = @ + dc,
                   !.average_speed = @ + dv,
                   !.queue_length = @ + dq]

\* The update of one sensor at the head of process_step.
Perturb(sensor, dc, dv, dq) ==
    [sensor EXCEPT !.vehicle_count = Max(0, @ + dc),
                   !.average_speed = Max(5, Min(80, @ + dv)),
                   !.queue_length = Max(0, Min(20, @ + dq))]

(***************************************************************************)
(* EmergencyManagementSystem.  A Vehicle carries the fields the emergency  *)
(* system reads or writes; position stands for position and destination.   *)
(* int() of a non-negative float is the floor of the exact product.        *)
(***************************************************************************)
VehicleType == {"CAR", "JEEP", "TRUCK", "BUS", "MOTORCYCLE", "EMERGENCY", "PEDESTRIAN"}

Vehicle(id, type, emergency_level, position) ==
    [id |-> id, type |-> type, emergency_level |-> emergency_level,
     position |-> position, priority |-> 0]

weather_impact_factors ==
    [w \in {"CLEAR", "RAIN", "SNOW", "FOG", "STORM"} |->
        CASE w = "CLEAR" -> R(10, 10)
          [] w = "RAIN" -> R(12, 10)
          [] w = "SNOW" -> R(15, 10)
          [] w = "FOG" -> R(18, 10)
          [] w = "STORM" -> R(25, 10)]

priority_map ==
    [l \in EmergencyLevel |->
        CASE l = "NONE" -> 0
          [] l = "LOW" -> 1
          [] l = "MEDIUM" -> 3
          [] l = "HIGH" -> 7
          [] l = "CRITICAL" -> 10]

\* int(x) for a rational x: truncation towards zero.
Trunc(x) == IF x[1] >= 0 THEN x[1] \div x[2] ELSE -((-x[1]) \div x[2])

\* The bonus of the EMERGENCY type added after the weather factor is applied.
calculate_priority_bonus_last(vehicle, weather) ==
    LET base_priority == IF vehicle.emergency_level \in DOMAIN priority_map
                         THEN priority_map[vehicle.emergency_level] ELSE 0
        weather_factor == IF weather \in DOMAIN weather_impact_factors
                          THEN weather_impact_factors[weather] ELSE R(1, 1)
    IN Trunc(RMul(R(base_priority, 1), weather_factor))
       + (IF vehicle.type = "EMERGENCY" THEN 5 ELSE 0)

calculate_priority(vehicle, weather) ==
    LET base_priority == IF vehicle.emergency_level \in DOMAIN priority_map
                         THEN priority_map[vehicle.emergency_level] ELSE 0
        weather_factor == IF weather \in DOMAIN weather_impact_factors
                          THEN weather_impact_factors[weather] ELSE R(1, 1)
        with_type == IF vehicle.type = "EMERGENCY" THEN base_priority + 5 ELSE base_priority
    IN Trunc(RMul(R(with_type, 1), weather_factor))

(***************************************************************************)
(* SpecPriority: calculate_priority applied once to a vehicle of any type  *)
(* and level under any weather.                                            *)
(***************************************************************************)
InitPriority ==
    /\ light = NewLight(ShortConfig)
    /\ current_step = 0
    /\ last \in [op : {"args"},
                 vehicle : {Vehicle("V1", t, l, 0) : t \in VehicleType, l \in EmergencyLevel},
                 weather : WeatherCondition]
    /\ NoMonitor
    /\ NewSystem

CallPriority ==
    /\ last.op = "args"
    /\ last' = [op |-> "calculate_priority", vehicle |-> last.vehicle, weather |-> last.weather,
                priority |-> calculate_priority(last.vehicle, last.weather)]
    /\ UNCHANGED <<light, current_step, objects, sensor_data_history>>
    /\ UNCHANGED systemVars

NextPriority == CallPriority

SpecPriority == InitPriority /\ [][NextPriority]_vars

\* The registry is a dict keyed by vehicle id; it is kept as the sequence of
\* its values in insertion order, which is the order Python iterates in.
IndexOf(active, vehicle_id) ==
    IF \E i \in 1..Len(active) : active[i].id = vehicle_id
    THEN CHOOSE i \in 1..Len(active) : active[i].id = vehicle_id
    ELSE 0

\* Registration that does not look at the emergency level.
register_emergency_vehicle_any_level(active, vehicle) ==
    [ok |-> TRUE,
     active |-> IF IndexOf(active, vehicle.id) # 0
                THEN [active EXCEPT ![IndexOf(active, vehicle.id)] = vehicle]
                ELSE Append(active, vehicle)]

\* Registration that appends, whether or not the id is already registered.
register_emergency_vehicle_append(active, vehicle) ==
    IF vehicle.emergency_level # "NONE"
    THEN [ok |-> TRUE, active |-> Append(active, vehicle)]
    ELSE [ok |-> FALSE, active |-> active]

\* self.active_emergencies[vehicle.id] = vehicle: an id already registered
\* keeps its place and gets the new vehicle.
register_emergency_vehicle(active, vehicle) ==
    IF vehicle.emergency_level # "NONE"
    THEN [ok |-> TRUE,
          active |-> IF IndexOf(active, vehicle.id) # 0
                     THEN [active EXCEPT ![IndexOf(active, vehicle.id)] = vehicle]
                     ELSE Append(active, vehicle)]
    ELSE [ok |-> FALSE, active |-> active]

unregister_emergency_vehicle(active, vehicle_id) ==
    IF IndexOf(active, vehicle_id) # 0
    THEN [ok |-> TRUE, active |-> SelectSeq(active, LAMBDA v : v.id # vehicle_id)]
    ELSE [ok |-> FALSE, active |-> active]

\* max() keeping the last of the vehicles of maximal score.
RECURSIVE MaxByPriority_last(_, _)
MaxByPriority_last(best, rest) ==
    IF rest = <<>> THEN best
    ELSE IF calculate_priority(Head(rest), "CLEAR") >= calculate_priority(best, "CLEAR")
         THEN MaxByPriority_last(Head(rest), Tail(rest))
         ELSE MaxByPriority_last(best, Tail(rest))

\* max(values, key = priority against CLEAR): a later vehicle replaces the
\* best so far only with a strictly greater score.
RECURSIVE MaxByPriority(_, _)
MaxByPriority(best, rest) ==
    IF rest = <<>> THEN best
    ELSE IF calculate_priority(Head(rest), "CLEAR") > calculate_priority(best, "CLEAR")
         THEN MaxByPriority(Head(rest), Tail(rest))
         ELSE MaxByPriority(best, Tail(rest))

\* The vehicle registered first, whatever the scores.
get_highest_priority_vehicle_oldest(active) ==
    IF active = <<>> THEN <<>> ELSE <<Head(active)>>

\* The result is a list of no vehicle (None) or one vehicle.
get_highest_priority_vehicle(active) ==
    IF active = <<>> THEN <<>>
    ELSE <<MaxByPriority(Head(active), Tail(active))>>

\* A route through every intersection.
generate_priority_route_all(routes, vehicle, configs) ==
    [route |-> configs,
     routes |-> [k \in DOMAIN routes \cup {vehicle.id} |->
                    IF k = vehicle.id THEN configs ELSE routes[k]]]

\* intersections is the list of the ids of the configurations passed.
generate_priority_route(routes, vehicle, configs) ==
    LET route == SubSeq(configs, 1, Min(3, Len(configs)))
    IN [route |-> route,
        routes |-> [k \in DOMAIN routes \cup {vehicle.id} |->
                       IF k = vehicle.id THEN route ELSE routes[k]]]

\* PerformanceMonitor.update_metric and increment_metric.
update_metric_add(m, metric_name, value) ==
    IF metric_name \in DOMAIN m THEN [m EXCEPT ![metric_name] = @ + value] ELSE m

update_metric(m, metric_name, value) ==
    IF metric_name \in DOMAIN m THEN [m EXCEPT ![metric_name] = value] ELSE m

increment_metric(m, metric_name, amount) ==
    IF metric_name \in DOMAIN m THEN [m EXCEPT ![metric_name] = @ + amount] ELSE m

\* handle_emergency_vehicle: the result it returns, the vehicle as the call
\* leaves it, and the registry, routes and metrics after the call.  The
\* registry holds the vehicle object itself, so the priority written to the
\* vehicle at line 958 shows in the registry.
\* The ids of self.intersections in insertion order: those added before the
\* run, then those added during it.
AllIntersections == intersections \o [i \in 1..Len(late_lights) |-> late_lights[i].id]

handle_emergency_vehicle(vehicle) ==
    LET reg == register_emergency_vehicle(active_emergencies, vehicle)
        priority == calculate_priority(vehicle, current_weather)
        gen == generate_priority_route(priority_routes, vehicle, AllIntersections)
        handled == [vehicle EXCEPT !.priority = priority]
    IN IF ~reg.ok
       THEN [registered |-> FALSE,
             result |-> [success |-> FALSE, message |-> "Vehicle is not an emergency vehicle"],
             vehicle |-> vehicle, active |-> reg.active, routes |-> priority_routes,
             metrics |-> metrics]
       ELSE [registered |-> TRUE,
             result |-> [success |-> TRUE, vehicle_id |-> vehicle.id, priority |-> priority,
                         route |-> gen.route, message |-> "registered"],
             vehicle |-> handled,
             active |-> [reg.active EXCEPT ![IndexOf(reg.active, vehicle.id)] = handled],
             routes |-> gen.routes,
             metrics |-> increment_metric(metrics, "emergency_responses", 1)]

\* The snapshot process_step appends to the step log.  Every intersection
\* of the system was added before the first step and takes the same calls,
\* so that light is the state of each of them.
StepInfo(step, analytics, updated, late) ==
    [step |-> step, system_status |-> system_status, weather |-> current_weather,
     analytics |-> analytics,
     intersection_states |->
        [i \in 1..Len(intersections) |->
            [id |-> intersections[i], state |-> updated.current_state,
             duration |-> get_current_state_duration(updated, step),
             cycle_count |-> updated.cycle_count]]
        \o [i \in 1..Len(late) |->
            [id |-> late[i].id, state |-> late[i].light.current_state,
             duration |-> get_current_state_duration(late[i].light, step),
             cycle_count |-> late[i].light.cycle_count]],
     active_emergencies |-> Len(active_emergencies)]

\* A step log that is never trimmed.
AppendSnapshot_keep_all(log, step_info) == Append(log, step_info)

\* self.step_log.append(step_info), trimmed to the last 1000 snapshots.
AppendSnapshot(log, step_info) ==
    IF Len(Append(log, step_info)) > 1000
    THEN LastN(Append(log, step_info), 1000)
    ELSE Append(log, step_info)

\* No emergency level ever reaches the controllers.
EffectiveLevel_never(active) == "NONE"

\* The level process_step passes to the controllers.
EffectiveLevel(active) ==
    LET priority_vehicle == get_highest_priority_vehicle(active)
    IN IF priority_vehicle # <<>> THEN priority_vehicle[1].emergency_level ELSE "NONE"

\* process_step from line 891 on, step being self.current_step as line 889
\* left it and draws[i] the three random draws for sensor i.  Every
\* controller takes the same call of update_state, with the scenario flags
\* of the system.
finish_step(step, draws) ==
    LET objs == [i \in 1..Len(objects) |->
                    Perturb(objects[i], draws[i][1], draws[i][2], draws[i][3])]
        sensors == [i \in 1..Len(objs) |-> i]
        r == process_sensor_data(sensor_data_history, objs, sensors)
        analytics == r.processed_data
        emergency_level == EffectiveLevel(active_emergencies)
        updated == IF intersections = <<>> THEN light
                   ELSE update_state(light, step, Deref(objs, sensors), current_weather,
                                     emergency_level, self_power_outage,
                                     is_pedestrian_scramble, self_is_rush_hour).self
        late == [i \in 1..Len(late_lights) |->
                    [id |-> late_lights[i].id,
                     light |-> update_state(late_lights[i].light, step, Deref(objs, sensors),
                                            current_weather, emergency_level, self_power_outage,
                                            is_pedestrian_scramble, self_is_rush_hour).self]]
        counted == update_metric(metrics, "total_vehicles_processed", analytics.total_vehicles)
        flagged == IF analytics.anomalies # <<>>
                   THEN increment_metric(counted, "anomalies_detected", Len(analytics.anomalies))
                   ELSE counted
    IN /\ current_step' = step
       /\ objects' = objs
       /\ sensor_data_history' = r.history
       /\ light' = updated
       /\ metrics' = increment_metric(flagged, "total_steps", 1)
       /\ late_lights' = late
       /\ step_log' = AppendSnapshot(step_log, StepInfo(step, analytics, updated, late))
       /\ UNCHANGED <<active_emergencies, priority_routes, current_weather, intersections>>
       /\ UNCHANGED scenarioVars

\* process_step run without interruption: line 889, then the rest.
process_step(draws) == finish_step(current_step + 1, draws)

\* The sensors and the one intersection of a system, added before the run.
WithSetup(sensor_list, ids) ==
    /\ light = NewLight(ShortConfig)
    /\ current_step = 0
    /\ objects = sensor_list
    /\ sensor_data_history = [id \in {} |-> <<>>]
    /\ active_emergencies = <<>>
    /\ priority_routes = [id \in {} |-> <<>>]
    /\ current_weather = "CLEAR"
    /\ intersections = ids
    /\ NewScenario
    /\ metrics = [total_steps |-> 0, total_vehicles_processed |-> 0,
                  emergency_responses |-> 0, anomalies_detected |-> 0]
    /\ step_log = <<>>

InitStep ==
    /\ WithSetup(<<TrafficSensor("S1", 5, 30, 4, TRUE)>>, <<"I1">>)
    /\ last = [op |-> "none", appended |-> <<>>]

ProcessStep ==
    /\ current_step < StepTicks
    /\ \E dc \in CountDeltas, dv \in SpeedDeltas, dq \in QueueDeltas :
          /\ process_step(<<<<dc, dv, dq>>>>)
          /\ UNCHANGED guiVars
          /\ LET pre == WithKey(sensor_data_history, "S1")["S1"]
             IN last' = [op |-> "process_step", analytics |-> step_log'[Len(step_log')].analytics,
                         pre |-> pre,
                         samples |-> IF Len(pre) < 5 THEN <<>> ELSE VehicleCounts(objects', pre),
                         appended |-> LastN(Append(last.appended, objects'[1].vehicle_count), 100)]

NextStep == ProcessStep

SpecStep == InitStep /\ [][NextStep]_vars

(***************************************************************************)
(* SpecEmergency: a system of one sensor and two intersections takes       *)
(* EmergencyCalls calls, each one of handle_emergency_vehicle,             *)
(* unregister_emergency_vehicle, update_weather, add_intersection (before  *)
(* the first step only, so that all controllers stay in the same state)    *)
(* and process_step (with draws that leave the sensor as it is).  last     *)
(* records the call, its result, the registry, routes, metrics and weather *)
(* before it, and the number of calls made.                                *)
(***************************************************************************)
VehicleIds == {"V1", "V2"}
\* V1 and V2 are at different positions.
PositionOf(id) == IF id = "V1" THEN 0 ELSE 1
EmergencyVehicles ==
    {Vehicle(id, t, l, PositionOf(id)) : id \in VehicleIds, t \in {"CAR", "EMERGENCY"},
                                         l \in {"NONE", "MEDIUM", "HIGH"}}
EmergencyWeathers == {"CLEAR", "RAIN", "STORM"}

IntersectionIds == <<"I1", "I2", "I3", "I4">>

InitEmergency ==
    /\ WithSetup(<<TrafficSensor("S1", 5, 30, 4, TRUE)>>, <<"I1", "I2">>)
    /\ last = [op |-> "none", calls |-> 0]

\* What last keeps of the state before a call.
Before ==
    [active |-> active_emergencies, routes |-> priority_routes, metrics |-> metrics,
     weather |-> current_weather]

HandleEmergencyVehicle ==
    /\ last.calls < EmergencyCalls
    /\ \E vehicle \in EmergencyVehicles :
          LET h == handle_emergency_vehicle(vehicle)
          IN /\ active_emergencies' = h.active
             /\ priority_routes' = h.routes
             /\ metrics' = h.metrics
             /\ last' = [op |-> "handle_emergency_vehicle", calls |-> last.calls + 1,
                         vehicle |-> vehicle, registered |-> h.registered,
                         result |-> h.result, vehicle_after |-> h.vehicle, pre |-> Before]
    /\ UNCHANGED <<light, current_step, objects, sensor_data_history,
                   current_weather, intersections, step_log, late_lights>>
    /\ UNCHANGED scenarioVars
    /\ UNCHANGED guiVars

UnregisterEmergencyVehicle ==
    /\ last.calls < EmergencyCalls
    /\ \E vehicle_id \in VehicleIds :
          LET u == unregister_emergency_vehicle(active_emergencies, vehicle_id)
          IN /\ active_emergencies' = u.active
             /\ last' = [op |-> "unregister_emergency_vehicle", calls |-> last.calls + 1,
                         vehicle_id |-> vehicle_id, result |-> u.ok, pre |-> Before]
    /\ UNCHANGED <<light, current_step, objects, sensor_data_history, priority_routes,
                   current_weather, intersections, metrics, step_log, late_lights>>
    /\ UNCHANGED scenarioVars
    /\ UNCHANGED guiVars

UpdateWeather ==
    /\ last.calls < EmergencyCalls
    /\ \E weather \in EmergencyWeathers :
          /\ current_weather' = weather
          /\ last' = [op |-> "update_weather", calls |-> last.calls + 1, pre |-> Before]
    /\ UNCHANGED <<light, current_step, objects, sensor_data_history, active_emergencies,
                   priority_routes, intersections, metrics, step_log, late_lights>>
    /\ UNCHANGED scenarioVars
    /\ UNCHANGED guiVars

AddIntersection ==
    /\ last.calls < EmergencyCalls
    /\ current_step = 0
    /\ Len(intersections) < Len(IntersectionIds)
    /\ intersections' = Append(intersections, IntersectionIds[Len(intersections) + 1])
    /\ last' = [op |-> "add_intersection", calls |-> last.calls + 1, pre |-> Before]
    /\ UNCHANGED <<light, current_step, objects, sensor_data_history, active_emergencies,
                   priority_routes, current_weather, metrics, step_log, late_lights>>
    /\ UNCHANGED scenarioVars
    /\ UNCHANGED guiVars

StepEmergency ==
    /\ last.calls < EmergencyCalls
    /\ process_step(<<<<0, 0, 0>>>>)
    /\ UNCHANGED guiVars
    /\ last' = [op |-> "process_step", calls |-> last.calls + 1, pre |-> Before,
                priority_vehicle |-> get_highest_priority_vehicle(active_emergencies),
                emergency_level |-> EffectiveLevel(active_emergencies),
                controller |-> light]

NextEmergency ==
    \/ HandleEmergencyVehicle
    \/ UnregisterEmergencyVehicle
    \/ UpdateWeather
    \/ AddIntersection
    \/ StepEmergency

SpecEmergency == InitEmergency /\ [][NextEmergency]_vars

(***************************************************************************)
(* SpecPerturb: process_step on a system whose sensors start at or near    *)
(* the limits of their fields.  A system of one sensor takes every draw    *)
(* of random.randint(-2, 3) and random.randint(-1, 2) and three speed      *)
(* draws; a system of two sensors takes the extreme draws for each sensor. *)
(* last records the sensors before the step and the draws.                 *)
(***************************************************************************)
AllDraws == {<<dc, dv, dq>> : dc \in -2..3, dv \in {-5, 0, 5}, dq \in -1..2}
ExtremeDraws == {<<dc, dv, dq>> : dc \in {-2, 3}, dv \in {-5, 5}, dq \in {-1, 2}}

PerturbSensorLists ==
    {<<TrafficSensor("S1", c, v, q, TRUE)>> : c \in {0, 1, 5}, v \in {5, 30, 80}, q \in {0, 10, 20}}
    \cup {<<TrafficSensor("S1", 1, 5, 0, TRUE), TrafficSensor("S2", 5, 80, 20, FALSE)>>}

InitPerturb ==
    /\ \E sensor_list \in PerturbSensorLists : WithSetup(sensor_list, <<"I1">>)
    /\ last = NoCall

StepPerturb ==
    /\ current_step < PerturbTicks
    /\ \E draws \in [1..Len(objects) -> IF Len(objects) = 1 THEN AllDraws ELSE ExtremeDraws] :
          /\ process_step(draws)
          /\ UNCHANGED guiVars
          /\ last' = [op |-> "process_step", pre |-> objects, draws |-> draws]

NextPerturb == StepPerturb

SpecPerturb == InitPerturb /\ [][NextPerturb]_vars

(***************************************************************************)
(* SpecLog: LogTicks steps of a system of one sensor and one intersection, *)
(* with draws that leave the sensor as it is.  last records the tick       *)
(* counter and the step log before the step.                               *)
(***************************************************************************)
InitLog ==
    /\ \E c \in {0, 5} : WithSetup(<<TrafficSensor("S1", c, 30, 4, TRUE)>>, <<"I1">>)
    /\ last = NoCall

StepLog ==
    /\ current_step < LogTicks
    /\ process_step(<<<<0, 0, 0>>>>)
    /\ UNCHANGED guiVars
    /\ last' = [op |-> "process_step", pre_step |-> current_step, pre_log |-> step_log]

NextLog == StepLog

SpecLog == InitLog /\ [][NextLog]_vars

(***************************************************************************)
(* The normal cycle under unchanged conditions: the sensor readings, the   *)
(* weather and the rush-hour flag are drawn once and every tick calls      *)
(* update_state with them and with no override.                            *)
(***************************************************************************)
\* A configuration whose yellow phase has duration 0.
ZeroYellowConfig == [ShortConfig EXCEPT !.default_yellow_time = R(0, 1)]

CycleConfigs == {ShortConfig, ZeroYellowConfig}

InitCycle ==
    /\ light \in {NewLight(c) : c \in CycleConfigs}
    /\ current_step = 0
    /\ \E sensor_data \in TickSensorLists, weather \in TickWeathers, is_rush_hour \in BOOLEAN :
          last = [op |-> "none", sensor_data |-> sensor_data, weather |-> weather,
                  is_rush_hour |-> is_rush_hour]
    /\ NoMonitor
    /\ NewSystem

TickCycle ==
    /\ current_step < CycleTicks
    /\ LET step == current_step + 1
           r == update_state(light, step, last.sensor_data, last.weather, "NONE",
                             FALSE, FALSE, last.is_rush_hour)
       IN /\ current_step' = step
          /\ light' = r.self
          /\ last' = [op |-> "update_state", step |-> step, sensor_data |-> last.sensor_data,
                      weather |-> last.weather, emergency_level |-> "NONE",
                      power_outage |-> FALSE, is_scramble |-> FALSE,
                      is_rush_hour |-> last.is_rush_hour, pre |-> light, branch |-> r.branch]
    /\ UNCHANGED <<objects, sensor_data_history>>
    /\ UNCHANGED systemVars

NextCycle == TickCycle

SpecCycle == InitCycle /\ [][NextCycle]_vars

(***************************************************************************)
(* load_scenario and update_weather, lines 839-876.                        *)
(***************************************************************************)
Scenario ==
    {"DAY", "NIGHT", "RUSH_HOUR", "HEAVY_RAIN", "SNOW_BLIZZARD", "DENSE_FOG",
     "POWER_OUTAGE", "PEDESTRIAN_SCRAMBLE"}

\* A scenario that leaves the weather of the system as it was unless it
\* names one.
ScenarioWeather_keep(scenario, weather) ==
    CASE scenario = "HEAVY_RAIN" -> "RAIN"
      [] scenario = "SNOW_BLIZZARD" -> "SNOW"
      [] scenario = "DENSE_FOG" -> "FOG"
      [] scenario = "NIGHT" -> "NIGHT"
      [] OTHER -> weather

\* Lines 859-868: the weather a scenario sets, weather being the one before.
ScenarioWeather(scenario, weather) ==
    CASE scenario = "HEAVY_RAIN" -> "RAIN"
      [] scenario = "SNOW_BLIZZARD" -> "SNOW"
      [] scenario = "DENSE_FOG" -> "FOG"
      [] scenario = "NIGHT" -> "NIGHT"
      [] OTHER -> "CLEAR"

\* A status that a scenario never changes.
ScenarioStatus_keep(outage, status) == status

\* Lines 870-874: the status a scenario sets.
ScenarioStatus(outage, status) == IF outage THEN "FAILURE" ELSE "NORMAL"

\* load_scenario: the action on the fields of the system.
load_scenario(scenario) ==
    /\ current_scenario' = scenario
    /\ self_power_outage' = (scenario = "POWER_OUTAGE")
    /\ self_is_rush_hour' = (scenario = "RUSH_HOUR")
    /\ is_pedestrian_scramble' = (scenario = "PEDESTRIAN_SCRAMBLE")
    /\ max_cars_per_lane' = IF scenario = "RUSH_HOUR" THEN 8 ELSE 4
    /\ current_weather' = ScenarioWeather(scenario, current_weather)
    /\ system_status' = ScenarioStatus(scenario = "POWER_OUTAGE", system_status)
    /\ UNCHANGED <<light, current_step, objects, sensor_data_history, active_emergencies,
                   priority_routes, intersections, metrics, step_log, late_lights>>
    /\ UNCHANGED guiVars

\* update_weather: the action on the fields of the system.
update_weather(weather) ==
    /\ current_weather' = weather
    /\ UNCHANGED <<light, current_step, objects, sensor_data_history, active_emergencies,
                   priority_routes, intersections, metrics, step_log, late_lights>>
    /\ UNCHANGED scenarioVars
    /\ UNCHANGED guiVars

(***************************************************************************)
(* SpecScenario: any sequence of load_scenario and update_weather calls on *)
(* a new system.  last records the latest call and the weather before it.  *)
(***************************************************************************)
InitScenario ==
    /\ light = NewLight(ShortConfig)
    /\ current_step = 0
    /\ last = NoCall
    /\ NoMonitor
    /\ NewSystem

LoadScenario ==
    \E scenario \in Scenario :
        /\ load_scenario(scenario)
        /\ last' = [op |-> "load_scenario", scenario |-> scenario,
                    pre_weather |-> current_weather]

SetWeather ==
    \E weather \in WeatherCondition :
        /\ update_weather(weather)
        /\ last' = [op |-> "update_weather", weather |-> weather,
                    pre_weather |-> current_weather]

NextScenario == LoadScenario \/ SetWeather

SpecScenario == InitScenario /\ [][NextScenario]_vars

(***************************************************************************)
(* SpecOverride: ticks of a system whose scenario is loaded, whose weather *)
(* is updated and whose one emergency vehicle is registered and            *)
(* unregistered at any time between ticks, and to which a second           *)
(* intersection is added during the run.  last keeps the controllers      *)
(* before the latest tick and what that tick was given, and, while every   *)
(* tick since some tick has been an emergency tick and nothing has ended   *)
(* the emergency, the cycle counters before the first of them (period).    *)
(***************************************************************************)
OverrideScenarios == {"DAY", "POWER_OUTAGE", "PEDESTRIAN_SCRAMBLE"}
OverrideWeathers == {"RAIN"}
OverrideVehicle == Vehicle("V1", "EMERGENCY", "HIGH", 0)

\* The cycle counters of the controllers added during the run.
LateCounts == [i \in 1..Len(late_lights) |-> late_lights[i].light.cycle_count]

InitOverride ==
    /\ WithSetup(<<TrafficSensor("S1", 5, 30, 4, TRUE)>>, <<"I1">>)
    /\ last = [op |-> "none", pre |-> NewLight(ShortConfig), pre_late |-> <<>>,
               emergency_tick |-> FALSE, outage_tick |-> FALSE, period |-> <<>>]

\* A tick is an emergency tick when the registry is not empty and neither
\* the outage nor the scramble flag is set.
EmergencyTick ==
    active_emergencies # <<>> /\ ~self_power_outage /\ ~is_pedestrian_scramble

StepOverride ==
    /\ current_step < OverrideTicks
    /\ process_step(<<<<0, 0, 0>>>>)
    /\ UNCHANGED guiVars
    /\ last' = [op |-> "process_step", pre |-> light, pre_late |-> late_lights,
                emergency_tick |-> EmergencyTick, outage_tick |-> self_power_outage,
                period |-> IF ~EmergencyTick THEN <<>>
                           ELSE IF last.period # <<>> THEN last.period
                           ELSE <<[light |-> light.cycle_count, late |-> LateCounts]>>]

LoadScenarioOverride ==
    \E scenario \in OverrideScenarios :
        /\ load_scenario(scenario)
        /\ last' = [last EXCEPT !.period = IF scenario = "DAY" THEN @ ELSE <<>>]

UpdateWeatherOverride ==
    /\ current_step < WeatherTicks
    /\ \E weather \in OverrideWeathers :
        /\ update_weather(weather)
        /\ UNCHANGED last

RegisterOverride ==
    /\ metrics.emergency_responses < OverrideResponses
    /\ LET h == handle_emergency_vehicle(OverrideVehicle)
       IN /\ active_emergencies' = h.active
          /\ priority_routes' = h.routes
          /\ metrics' = h.metrics
    /\ UNCHANGED last
    /\ UNCHANGED <<light, current_step, objects, sensor_data_history,
                   current_weather, intersections, step_log, late_lights>>
    /\ UNCHANGED scenarioVars
    /\ UNCHANGED guiVars

UnregisterOverride ==
    /\ LET u == unregister_emergency_vehicle(active_emergencies, OverrideVehicle.id)
       IN active_emergencies' = u.active
    /\ last' = [last EXCEPT !.period = IF active_emergencies' = <<>> THEN <<>> ELSE @]
    /\ UNCHANGED <<light, current_step, objects, sensor_data_history, priority_routes,
                   current_weather, intersections, metrics, step_log, late_lights>>
    /\ UNCHANGED scenarioVars
    /\ UNCHANGED guiVars

\* add_intersection during the run: a new controller, RED, under its id.
AddIntersectionOverride ==
    /\ late_lights = <<>>
    /\ late_lights' = <<[id |-> "I2", light |-> NewLight(ZeroYellowConfig)]>>
    /\ last' = [last EXCEPT !.period = IF @ = <<>> THEN @
                                       ELSE <<[@[1] EXCEPT !.late = <<0>>]>>]
    /\ UNCHANGED <<light, current_step, objects, sensor_data_history, active_emergencies,
                   priority_routes, current_weather, intersections, metrics, step_log>>
    /\ UNCHANGED scenarioVars
    /\ UNCHANGED guiVars

NextOverride ==
    \/ StepOverride
    \/ LoadScenarioOverride
    \/ UpdateWeatherOverride
    \/ RegisterOverride
    \/ UnregisterOverride
    \/ AddIntersectionOverride

SpecOverride == InitOverride /\ [][NextOverride]_vars

(***************************************************************************)
(* SpecRecover: a controller takes ticks with any overrides (DisturbTick)  *)
(* until the overrides end for good (Settle: a scenario without outage or  *)
(* scramble is loaded and the registry is empty, which writes no field of  *)
(* the controller); from then on every tick is a tick of the normal cycle  *)
(* (QuietTick).  The simulation thread calls process_step every 0.5 s      *)
(* while the simulation runs (lines 1143-1146), which is weak fairness of  *)
(* QuietTick.  last keeps whether the overrides have ended and the state   *)
(* and cycle counter the controller had then.                              *)
(***************************************************************************)
InitRecover ==
    /\ light = NewLight(ShortConfig)
    /\ current_step = 0
    /\ last = [op |-> "none", quiet |-> FALSE]
    /\ NoMonitor
    /\ NewSystem

DisturbTick ==
    /\ ~last.quiet
    /\ current_step < DisturbTicks
    /\ \E emergency_level \in TickLevels, power_outage \in BOOLEAN, is_scramble \in BOOLEAN :
          /\ light' = update_state(light, current_step + 1, <<>>, "CLEAR", emergency_level,
                                   power_outage, is_scramble, FALSE).self
          /\ current_step' = current_step + 1
          /\ last' = [op |-> "update_state", quiet |-> FALSE]
    /\ UNCHANGED <<objects, sensor_data_history>>
    /\ UNCHANGED systemVars

Settle ==
    /\ ~last.quiet
    /\ last' = [op |-> "settle", quiet |-> TRUE, left_in |-> light.current_state,
                left_at |-> current_step, left_start |-> light.state_start_time,
                left_count |-> light.cycle_count]
    /\ UNCHANGED <<light, current_step, objects, sensor_data_history>>
    /\ UNCHANGED systemVars

QuietTick ==
    /\ last.quiet
    /\ current_step < RecoverTicks
    /\ \E sensor_data \in TickSensorLists, weather \in TickWeathers, is_rush_hour \in BOOLEAN :
          light' = update_state(light, current_step + 1, sensor_data, weather, "NONE",
                                FALSE, FALSE, is_rush_hour).self
    /\ current_step' = current_step + 1
    /\ last' = [last EXCEPT !.op = "update_state"]
    /\ UNCHANGED <<objects, sensor_data_history>>
    /\ UNCHANGED systemVars

NextRecover == DisturbTick \/ Settle \/ QuietTick

SpecRecover == InitRecover /\ [][NextRecover]_vars /\ WF_vars(QuietTick)

(***************************************************************************)
(* get_system_status, lines 969-986, which the display refresh, save_state *)
(* and generate_report call: the status and the history after the call.    *)
(* get_metrics_summary and check_system_health read the metrics only.      *)
(***************************************************************************)
get_system_status ==
    LET sensors == [i \in 1..Len(objects) |-> i]
        r == process_sensor_data(sensor_data_history, objects, sensors)
    IN [status |-> [step |-> current_step, system_status |-> system_status,
                    weather |-> current_weather, analytics |-> r.processed_data,
                    intersection_count |-> Len(AllIntersections),
                    sensor_count |-> Len(sensors),
                    active_emergencies |-> Len(active_emergencies),
                    performance |-> metrics],
        history |-> r.history]

(***************************************************************************)
(* SpecStatus: steps of a system with one sensor, with status queries      *)
(* between them.  last keeps the latest operation, the history before it   *)
(* and the number of queries so far.                                       *)
(***************************************************************************)
InitStatus ==
    /\ WithSetup(<<TrafficSensor("S1", 5, 30, 4, TRUE)>>, <<"I1">>)
    /\ last = [op |-> "none", pre_history |-> [id \in {} |-> <<>>], queries |-> 0]

StepStatus ==
    /\ current_step < StatusTicks
    /\ \E dc \in CountDeltas : process_step(<<<<dc, 0, 0>>>>)
    /\ UNCHANGED guiVars
    /\ last' = [last EXCEPT !.op = "process_step", !.pre_history = sensor_data_history]

GetSystemStatus ==
    /\ last.queries < StatusQueries
    /\ sensor_data_history' = get_system_status.history
    /\ last' = [op |-> "get_system_status", pre_history |-> sensor_data_history,
                queries |-> last.queries + 1]
    /\ UNCHANGED <<light, current_step, objects>>
    /\ UNCHANGED systemVars

NextStatus == StepStatus \/ GetSystemStatus

SpecStatus == InitStatus /\ [][NextStatus]_vars

(***************************************************************************)
(* SpecGui: TrafficControlGUI, lines 1138-1162.  start_simulation starts a *)
(* daemon thread that runs                                                 *)
(*     while self.is_running: self.system.process_step(); time.sleep(0.5)  *)
(* and single_step calls process_step on the main thread; no lock is       *)
(* taken anywhere.  A call of process_step is two steps of its thread:     *)
(* line 889 (self.current_step += 1), then the rest, which reads           *)
(* self.current_step again wherever it needs the step; the interpreter may *)
(* switch threads between the two.  An exception raised in the rest leaves *)
(* process_step, which has no handler, and then run_simulation, which has  *)
(* none either, and ends the thread; on the main thread it leaves          *)
(* single_step and is reported by Tk.  A thread is "test" before the loop  *)
(* condition, "step" inside process_step, "sleep" in time.sleep, "exited"  *)
(* after the loop and "crashed" after an uncaught exception; the main      *)
(* thread is "idle" in the event loop, "step" inside process_step and      *)
(* "display" before the refresh that ends single_step.  last keeps the     *)
(* latest operation and the number of timed refreshes.                     *)
(***************************************************************************)
InitGui ==
    /\ WithSetup(<<TrafficSensor("S1", 5, 30, 4, TRUE)>>, <<"I1">>)
    /\ last = [op |-> "none", refreshes |-> 0]

\* _update_display: the status query is its only write.
update_display == sensor_data_history' = get_system_status.history

\* Everything but the history, the threads and the running flag.
GuiFrame ==
    /\ UNCHANGED <<light, current_step, objects>>
    /\ UNCHANGED <<active_emergencies, priority_routes, current_weather, intersections,
                   metrics, step_log, late_lights>>
    /\ UNCHANGED scenarioVars

\* The Start button is disabled while the simulation runs (line 1141).
StartSimulation ==
    /\ main_pc = "idle" /\ ~is_running
    /\ Len(threads) < MaxThreads
    /\ is_running' = TRUE
    /\ threads' = Append(threads, "test")
    /\ update_display
    /\ last' = [last EXCEPT !.op = "start_simulation"]
    /\ GuiFrame /\ UNCHANGED main_pc

StopSimulation ==
    /\ main_pc = "idle" /\ is_running
    /\ is_running' = FALSE
    /\ last' = [last EXCEPT !.op = "stop_simulation"]
    /\ GuiFrame /\ UNCHANGED <<sensor_data_history, threads, main_pc>>

\* root.after(1000, self._update_display), re-armed while running.
DisplayRefresh ==
    /\ main_pc = "idle" /\ is_running
    /\ last.refreshes < GuiRefreshes
    /\ update_display
    /\ last' = [op |-> "_update_display", refreshes |-> last.refreshes + 1]
    /\ GuiFrame /\ UNCHANGED <<is_running, threads, main_pc>>

\* while self.is_running: ... and line 889 of the call of process_step.
ThreadTest(i) ==
    /\ threads[i] = "test"
    /\ IF is_running
       THEN /\ current_step < GuiTicks
            /\ current_step' = current_step + 1
            /\ threads' = [threads EXCEPT ![i] = "step"]
       ELSE /\ threads' = [threads EXCEPT ![i] = "exited"]
            /\ UNCHANGED current_step
    /\ last' = [last EXCEPT !.op = "run_simulation"]
    /\ UNCHANGED <<light, objects, sensor_data_history, is_running, main_pc>>
    /\ UNCHANGED <<active_emergencies, priority_routes, current_weather, intersections,
                   metrics, step_log, late_lights>>
    /\ UNCHANGED scenarioVars

\* The rest of process_step, or an exception in it, on the caller who: a
\* simulation thread, which then sleeps or is ended by the exception, or the
\* main thread (who = 0), which then refreshes the display or leaves
\* single_step before the refresh.
StepRest(who) ==
    /\ (IF who = 0 THEN main_pc ELSE threads[who]) = "step"
    /\ \E fault \in BOOLEAN :
          /\ IF who = 0
             THEN /\ main_pc' = (IF fault THEN "idle" ELSE "display")
                  /\ UNCHANGED threads
             ELSE /\ threads' = [threads EXCEPT ![who] = IF fault THEN "crashed" ELSE "sleep"]
                  /\ UNCHANGED main_pc
          /\ IF fault
             THEN GuiFrame /\ UNCHANGED sensor_data_history
             ELSE finish_step(current_step, <<<<0, 0, 0>>>>)
    /\ last' = [last EXCEPT !.op = "process_step"]
    /\ UNCHANGED is_running

\* time.sleep(0.5) returns.
ThreadWake(i) ==
    /\ threads[i] = "sleep"
    /\ threads' = [threads EXCEPT ![i] = "test"]
    /\ last' = [last EXCEPT !.op = "run_simulation"]
    /\ GuiFrame /\ UNCHANGED <<sensor_data_history, is_running, main_pc>>

\* single_step, line 889 of its call of process_step.
SingleStepBegin ==
    /\ main_pc = "idle"
    /\ current_step < GuiTicks
    /\ current_step' = current_step + 1
    /\ main_pc' = "step"
    /\ last' = [last EXCEPT !.op = "single_step"]
    /\ UNCHANGED <<light, objects, sensor_data_history, is_running, threads>>
    /\ UNCHANGED <<active_emergencies, priority_routes, current_weather, intersections,
                   metrics, step_log, late_lights>>
    /\ UNCHANGED scenarioVars

\* single_step, line 1162: the display refresh.
SingleStepDisplay ==
    /\ main_pc = "display"
    /\ main_pc' = "idle"
    /\ update_display
    /\ last' = [last EXCEPT !.op = "single_step"]
    /\ GuiFrame /\ UNCHANGED <<is_running, threads>>

NextGui ==
    \/ StartSimulation
    \/ StopSimulation
    \/ DisplayRefresh
    \/ \E i \in 1..Len(threads) : ThreadTest(i)
    \/ \E who \in 0..Len(threads) : StepRest(who)
    \/ \E i \in 1..Len(threads) : ThreadWake(i)
    \/ SingleStepBegin
    \/ SingleStepDisplay

SpecGui == InitGui /\ [][NextGui]_vars

(***************************************************************************)
(* Properties of update_state (checked under Spec).                        *)
(***************************************************************************)
Called == last.op = "update_state"
NoOverride == ~last.power_outage /\ ~last.is_scramble /\ last.emergency_level = "NONE"
ParityState(step) == IF step % 2 = 0 THEN "FLASHING_YELLOW" ELSE "RED"
Successor(state) ==
    CASE state = "RED" -> "PRE_GREEN"
      [] state = "PRE_GREEN" -> "GREEN"
      [] state = "GREEN" -> "YELLOW"
      [] state = "YELLOW" -> "RED"

\* The duration the tick computed for the state the controller was in.
ComputedDuration ==
    LET t == calculate_optimal_timing(last.pre, last.sensor_data, last.weather,
                                      last.emergency_level, last.is_rush_hour,
                                      last.weather = "NIGHT").timing
    IN CASE last.pre.current_state = "RED" -> t.red
         [] last.pre.current_state = "PRE_GREEN" -> t.pre_green
         [] last.pre.current_state = "GREEN" -> t.green
         [] last.pre.current_state = "YELLOW" -> t.yellow

\* C1: exactly one branch handles an update_state call, chosen in the order
\* outage > scramble > emergency > normal cycle: with outage set the resulting
\* state depends on the tick parity alone, with scramble set and no outage it
\* is RED, and the normal cycle (whose adaptation-factor update is its
\* visible trace) is evaluated only when no override applies.
C1_OverridePriority ==
    Called =>
        /\ last.branch = (IF last.power_outage THEN "outage"
                          ELSE IF last.is_scramble THEN "scramble"
                          ELSE IF last.emergency_level # "NONE" THEN "emergency"
                          ELSE "normal")
        /\ last.power_outage => light.current_state = ParityState(last.step)
        /\ (~last.power_outage /\ last.is_scramble) => light.current_state = "RED"
        /\ ~NoOverride => light.adaptation_factor = last.pre.adaptation_factor
        /\ (NoOverride /\ last.sensor_data = <<Sensor(0, 6)>>) =>
               light.adaptation_factor = last.pre.adaptation_factor + 1

\* An outage tick that also carried the scramble flag and an emergency level,
\* on an even tick, from a controller that was GREEN.
C1_Witness ==
    /\ Called /\ last.power_outage /\ last.is_scramble /\ last.emergency_level # "NONE"
    /\ last.step % 2 = 0
    /\ last.pre.current_state = "GREEN"
    /\ light.current_state = "FLASHING_YELLOW"

\* C2: on a tick with no override, a controller in RED, PRE_GREEN, GREEN or
\* YELLOW moves to its successor in the cycle exactly when the time elapsed
\* in its state is at least the computed duration of that state, and
\* otherwise keeps its state.
C2_NormalCycleStep ==
    (Called /\ NoOverride /\ last.pre.current_state \in {"RED", "PRE_GREEN", "GREEN", "YELLOW"}) =>
        LET d == last.step - last.pre.state_start_time
        IN IF RLe(ComputedDuration, R(d, 1))
           THEN /\ light.current_state = Successor(last.pre.current_state)
                /\ light.state_start_time = last.step
           ELSE /\ light.current_state = last.pre.current_state
                /\ light.state_start_time = last.pre.state_start_time

\* A normal tick that closed a cycle begun by the cycle itself: YELLOW to RED
\* exactly at the yellow duration, after a GREEN phase.
C2_Witness ==
    /\ Called /\ NoOverride
    /\ last.pre.current_state = "YELLOW" /\ light.current_state = "RED"
    /\ REq(ComputedDuration, R(last.step - last.pre.state_start_time, 1))
    /\ light.cycle_count >= 1

\* C3: the cycle counter increases by exactly 1, and the green-elapsed
\* counter is reset to 0, on each tick at which the controller enters GREEN
\* from another state; on every other tick the cycle counter is unchanged.
C3_CycleCount ==
    Called =>
        IF last.pre.current_state # "GREEN" /\ light.current_state = "GREEN"
        THEN /\ light.cycle_count = last.pre.cycle_count + 1
             /\ light.green_time_elapsed = 0
        ELSE light.cycle_count = last.pre.cycle_count

\* The second entry into GREEN of a run, with a green-elapsed time to reset.
C3_Witness ==
    /\ Called
    /\ last.pre.current_state # "GREEN" /\ light.current_state = "GREEN"
    /\ last.pre.green_time_elapsed > 0
    /\ light.cycle_count = 2

\* C4: after a tick with the power-outage flag set the controller is
\* FLASHING_YELLOW when the tick number is even and RED when it is odd.
C4_OutageParity ==
    (Called /\ last.power_outage) =>
        /\ last.step % 2 = 0 => light.current_state = "FLASHING_YELLOW"
        /\ last.step % 2 = 1 => light.current_state = "RED"

\* An odd outage tick that turned a FLASHING_YELLOW controller RED.
C4_Witness ==
    /\ Called /\ last.power_outage /\ last.step % 2 = 1
    /\ last.pre.current_state = "FLASHING_YELLOW"
    /\ light.current_state = "RED"

\* C5: a tick handled by the power-outage branch changes the current signal
\* state only: state-start tick, last-state-change tick, cycle counter,
\* green-elapsed counter, adaptation factor and emergency-active flag are
\* left as they were.
C5_OutageFrame ==
    (Called /\ last.power_outage) =>
        light = [last.pre EXCEPT !.current_state = light.current_state]

\* An outage tick that changed the state of a controller whose bookkeeping
\* fields had all moved from their initial values.
C5_Witness ==
    /\ Called /\ last.power_outage
    /\ light.current_state # last.pre.current_state
    /\ last.pre.state_start_time > 0 /\ last.pre.state_start_time < last.step
    /\ last.pre.cycle_count > 0
    /\ last.pre.adaptation_factor # 100
    /\ last.pre.green_time_elapsed > 0

\* C6: after a tick with the scramble flag set and no power outage the
\* controller is RED, its state-start tick is the current tick (a reported
\* duration of 0) and its cycle counter is unchanged.
C6_Scramble ==
    (Called /\ ~last.power_outage /\ last.is_scramble) =>
        /\ light.current_state = "RED"
        /\ light.state_start_time = last.step
        /\ get_current_state_duration(light, current_step) = 0
        /\ light.cycle_count = last.pre.cycle_count

\* A scramble tick on a controller that was already RED for some ticks,
\* while an emergency level was given.
C6_Witness ==
    /\ Called /\ ~last.power_outage /\ last.is_scramble
    /\ last.emergency_level # "NONE"
    /\ last.pre.current_state = "RED"
    /\ last.pre.state_start_time < last.step - 1
    /\ light.state_start_time = last.step

\* C7: on a tick with an emergency level other than NONE and neither outage
\* nor scramble, a controller that is not GREEN becomes GREEN on that tick
\* (state-start tick = tick, cycle counter + 1), and a controller that is
\* GREEN is left as it is, however long it has been GREEN.
C7_Emergency ==
    (Called /\ ~last.power_outage /\ ~last.is_scramble /\ last.emergency_level # "NONE") =>
        IF last.pre.current_state # "GREEN"
        THEN /\ light.current_state = "GREEN"
             /\ light.state_start_time = last.step
             /\ light.cycle_count = last.pre.cycle_count + 1
        ELSE /\ light.current_state = "GREEN"
             /\ light.state_start_time = last.pre.state_start_time
             /\ light.cycle_count = last.pre.cycle_count

\* An emergency tick that held a controller GREEN for as long as the
\* longest green time of its configuration.
C7_Witness ==
    /\ Called /\ ~last.power_outage /\ ~last.is_scramble /\ last.emergency_level # "NONE"
    /\ last.pre.current_state = "GREEN" /\ light.current_state = "GREEN"
    /\ RLe(light.config.max_green_time, R(last.step - light.state_start_time, 1))

(***************************************************************************)
(* Properties of calculate_optimal_timing (checked under SpecTiming).      *)
(***************************************************************************)
Timed == last.op = "calculate_optimal_timing"
Within(x, config) == RLe(config.min_green_time, x) /\ RLe(x, config.max_green_time)
Clamped(x, config) ==
    IF RLt(x, config.min_green_time) THEN config.min_green_time
    ELSE IF RLt(config.max_green_time, x) THEN config.max_green_time
    ELSE x

\* ((3 + 3.5 s/n) + 4 [precipitation]) * 1.2 [rush hour] * 0.8 [night] for n
\* sensors counting s vehicles in all, as one fraction over 50 n.
FormulaGreen(n, s, weather, is_rush_hour, is_night) ==
    LET bonus == IF weather \in {"RAIN", "SNOW", "STORM"} THEN 8 * n ELSE 0
        rush == IF is_rush_hour THEN 6 ELSE 5
        night == IF is_night THEN 4 ELSE 5
    IN R((6 * n + 7 * s + bonus) * rush * night, 50 * n)

\* C8: for a non-empty sensor list and emergency level NONE the green time
\* returned is clamp(g, min_green_time, max_green_time), g being 3.0 + 3.5 x
\* mean count, plus 4.0 in RAIN, SNOW or STORM, then x 1.2 in rush hour, then
\* x 0.8 at night; density 4/CLEAR gives 17, density 0/RAIN gives 7 and
\* density 0/RAIN/rush gives 8.4 where the bounds permit; yellow, pre-green
\* and red are the configured defaults.
C8_GreenFormula ==
    (Timed /\ last.sensor_data # <<>> /\ last.emergency_level = "NONE") =>
        LET n == Len(last.sensor_data)
            s == SumCount(last.sensor_data)
            g == FormulaGreen(n, s, last.weather, last.is_rush_hour, last.is_night)
            config == last.pre.config
            plain == ~last.is_rush_hour /\ ~last.is_night
        IN /\ REq(last.timing.green, Clamped(g, config))
           /\ (s = 4 * n /\ last.weather = "CLEAR" /\ plain /\ Within(R(17, 1), config)) =>
                  REq(last.timing.green, R(17, 1))
           /\ (s = 0 /\ last.weather = "RAIN" /\ plain /\ Within(R(7, 1), config)) =>
                  REq(last.timing.green, R(7, 1))
           /\ (s = 0 /\ last.weather = "RAIN" /\ last.is_rush_hour /\ ~last.is_night
                     /\ Within(R(42, 5), config)) =>
                  REq(last.timing.green, R(42, 5))
           /\ last.timing.yellow = config.default_yellow_time
           /\ last.timing.pre_green = config.default_pre_green_time
           /\ last.timing.red = config.default_red_time

\* Density 0, RAIN, rush hour under the sample configuration: green 8.4.
C8_Witness ==
    /\ Timed /\ last.emergency_level = "NONE"
    /\ Len(last.sensor_data) = 2 /\ SumCount(last.sensor_data) = 0
    /\ last.weather = "RAIN" /\ last.is_rush_hour /\ ~last.is_night
    /\ last.pre.config = SampleConfig
    /\ REq(last.timing.green, R(42, 5))

\* C9 as stated: with an empty sensor list the green time is that of zero
\* density, clamp(3.0 with the weather, rush-hour and night adjustments).
C9_EmptyIsZeroDensity ==
    (Timed /\ last.sensor_data = <<>>) =>
        REq(last.timing.green,
            Clamped(FormulaGreen(1, 0, last.weather, last.is_rush_hour, last.is_night),
                    last.pre.config))

\* C9 amended: with an empty sensor list the density formula is skipped and
\* no adjustment is applied: the green time is clamp(default_green_time)
\* for level NONE and min_green_time for any other level, whatever the
\* weather and the rush-hour and night flags are.
C9_EmptyUsesDefault ==
    (Timed /\ last.sensor_data = <<>>) =>
        /\ last.emergency_level = "NONE" =>
               REq(last.timing.green, Clamped(last.pre.config.default_green_time, last.pre.config))
        /\ last.emergency_level # "NONE" =>
               REq(last.timing.green, last.pre.config.min_green_time)

\* An empty list in RAIN at rush hour under the sample configuration: the
\* green time is the configured 25, not (3 + 4) x 1.2 = 8.4.
C9_Witness ==
    /\ Timed /\ last.sensor_data = <<>> /\ last.emergency_level = "NONE"
    /\ last.weather = "RAIN" /\ last.is_rush_hour /\ ~last.is_night
    /\ last.pre.config = SampleConfig
    /\ REq(last.timing.green, R(25, 1))

\* C10: for every emergency level other than NONE the green time returned
\* is min_green_time, whatever the sensor list, weather and flags are.
C10_EmergencyGreenIsMin ==
    (Timed /\ last.emergency_level # "NONE") =>
        REq(last.timing.green, last.pre.config.min_green_time)

\* C11: for every sensor list (the empty one too), weather, emergency level
\* and flag combination, under every configuration with min_green_time <=
\* max_green_time, the green time returned lies within these two bounds.
C11_GreenWithinBounds ==
    Timed => Within(last.timing.green, last.pre.config)

\* Density 4 in a storm at rush hour under the short configuration: the
\* formula gives (3 + 14 + 4) x 1.2 = 25.2, the result is max_green_time.
C11_Witness ==
    /\ Timed /\ last.pre.config = ShortConfig
    /\ Len(last.sensor_data) = 1 /\ SumCount(last.sensor_data) = 4
    /\ last.weather = "STORM" /\ last.is_rush_hour /\ ~last.is_night
    /\ RLt(ShortConfig.max_green_time,
           DensityGreen(last.sensor_data, last.weather, last.is_rush_hour, last.is_night))
    /\ REq(last.timing.green, ShortConfig.max_green_time)

(***************************************************************************)
(* Properties of the adaptation factor.                                    *)
(***************************************************************************)
\* The factor (in hundredths) after one adjustment for the given sensors.
AdjustedFactor(a, sensor_data) ==
    LET n == Len(sensor_data)
        q == SumQueue(sensor_data)
    IN IF q > 5 * n THEN (IF a + 1 > 200 THEN 200 ELSE a + 1)
       ELSE IF q < 2 * n THEN (IF a - 1 < 50 THEN 50 ELSE a - 1)
       ELSE a

\* C12: on every update_state call with a non-empty sensor list, whichever
\* branch handles it, the adaptation factor is adjusted exactly once: +0.01
\* capped at 2.0 if the mean queue length is > 5, -0.01 floored at 0.5 if it
\* is < 2, unchanged otherwise.
C12_AdaptEveryTick ==
    (Called /\ last.sensor_data # <<>>) =>
        light.adaptation_factor = AdjustedFactor(last.pre.adaptation_factor, last.sensor_data)

\* C13: the adaptation factor stays within [0.5, 2.0]; from 1.0, 100
\* consecutive normal-cycle ticks with mean queue length 6 bring it to
\* exactly 2.0 (not earlier), and further such ticks leave it at 2.0.
C13_FactorRange ==
    /\ light.adaptation_factor >= 50 /\ light.adaptation_factor <= 200
    /\ last.only_long =>
           /\ current_step < 100 => light.adaptation_factor = 100 + current_step
           /\ current_step >= 100 => light.adaptation_factor = 200

\* The tick after the hundredth long-queue tick: the factor was 2.0 and is
\* still 2.0.
C13_Witness ==
    /\ last.op = "update_state" /\ last.only_long
    /\ current_step = 101
    /\ last.pre.adaptation_factor = 200
    /\ light.adaptation_factor = 200

(***************************************************************************)
(* Properties of the anomaly detector (checked under SpecMonitor).         *)
(***************************************************************************)
Processed == last.op = "process_sensor_data"
Anomalies == last.processed_data.anomalies
\* The counts of the readings retained before the latest call, and the ones
\* the detector looks at.
PriorCounts == [i \in 1..Len(last.pre) |-> objects[last.pre[i]].vehicle_count]
WindowCounts == LastN(PriorCounts, 10)

RECURSIVE SumSquares(_)
SumSquares(xs) == IF xs = <<>> THEN 0 ELSE Head(xs) * Head(xs) + SumSquares(Tail(xs))

\* C14: no anomaly record is emitted for a sensor whose retained history
\* holds fewer than 5 entries; the call completes.
C14_ShortHistoryNotFlagged ==
    (Processed /\ Len(last.pre) < 5) => Anomalies = <<>>

\* Three retained readings that vary, and a far-off current reading.
C14_Witness ==
    /\ Processed /\ PriorCounts = <<5, 5, 6>>
    /\ last.sensor.vehicle_count = 20
    /\ Anomalies = <<>>
    /\ Len(sensor_data_history["S1"]) = 4

NineFives == PriorCounts = <<5, 5, 5, 5, 5, 5, 5, 5, 5>>
EightFivesOneSix ==
    /\ Len(PriorCounts) = 9
    /\ \E k \in 1..9 : PriorCounts = [i \in 1..9 |-> IF i = k THEN 6 ELSE 5]

\* C17 as stated: after nine readings of count 5, a tenth reading of 20 is
\* flagged as a vehicle_count anomaly.
C17_NineFivesFlagged ==
    (Processed /\ NineFives /\ last.sensor.vehicle_count = 20) =>
        /\ Len(Anomalies) = 1
        /\ Anomalies[1].type = "vehicle_count"

\* C17: after nine readings of count 5 a tenth reading of 20 is not flagged
\* (the sample standard deviation of the nine counts is 0); after eight
\* readings of 5 and one of 6, in any order, a reading of 20 is flagged as a
\* vehicle_count anomaly.
C17_ConstantHistoryNotFlagged ==
    (Processed /\ last.sensor.vehicle_count = 20) =>
        /\ NineFives => Anomalies = <<>>
        /\ EightFivesOneSix =>
              /\ Len(Anomalies) = 1
              /\ Anomalies[1].sensor_id = "S1"
              /\ Anomalies[1].type = "vehicle_count"
              /\ Anomalies[1].value = 20

C17_Witness ==
    /\ Processed /\ NineFives
    /\ last.sensor.vehicle_count = 20
    /\ Anomalies = <<>>

\* C18: with at least 5 retained readings, the detector takes the last (at
\* most) 10 counts, of number n, sum S and sum of squares Q, so that
\* s^2 = (n Q - S^2) / (n (n - 1)), and emits exactly one record iff s > 0
\* and (current - mean)^2 > threshold^2 s^2; the record's expected range is
\* (mean - 2 s, mean + 2 s); otherwise (s = 0 included) it emits nothing.
C18_ZScoreRule ==
    (Processed /\ Len(last.pre) >= 5) =>
        LET n == Len(WindowCounts)
            S == Sum(WindowCounts)
            D == n * SumSquares(WindowCounts) - S * S
            c == last.sensor.vehicle_count
        IN IF D > 0 /\ (n * c - S) * (n * c - S) * (n - 1) > 2 * 2 * n * D
           THEN /\ Len(Anomalies) = 1
                /\ Anomalies[1].value = c
                /\ REq(Anomalies[1].expected_range.centre, R(S, n))
                /\ REq(Anomalies[1].expected_range.half_width_sq, R(2 * 2 * D, n * (n - 1)))
           ELSE Anomalies = <<>>

\* A flagged reading whose history is longer than the window of 10.
C18_Witness ==
    /\ Processed /\ Len(last.pre) > 10
    /\ Len(WindowCounts) = 10
    /\ Len(Anomalies) = 1

(***************************************************************************)
(* Properties of the sensor history (checked under SpecHistory, SpecStep). *)
(***************************************************************************)
\* The addresses of the readings of sensor id, in the order they arrived.
Arrivals(id) ==
    SelectSeq([a \in 1..Len(objects) |-> a], LAMBDA a : objects[a].id = id)

\* C15: each sensor's history holds at most 100 entries, in arrival order,
\* and is the last 100 arrivals (the 101st entry evicts the oldest); after
\* 150 calls the history of a sensor present from the start holds exactly
\* 100.
C15_HistoryFifo ==
    /\ \A id \in DOMAIN sensor_data_history :
          /\ Len(sensor_data_history[id]) <= 100
          /\ sensor_data_history[id] = LastN(Arrivals(id), 100)
    /\ current_step >= 1 =>
          Len(sensor_data_history["S1"]) = (IF current_step <= 100 THEN current_step ELSE 100)

\* 150 calls: the first 50 readings of S1 are gone, S2 joined for some calls.
C15_Witness ==
    /\ current_step = 150
    /\ Len(sensor_data_history["S1"]) = 100
    /\ Len(Arrivals("S1")) = 150
    /\ Head(sensor_data_history["S1"]) = Arrivals("S1")[51]
    /\ "S2" \in DOMAIN sensor_data_history
    /\ Len(sensor_data_history["S2"]) < 100

\* C16 as stated: in a run driven by process_step every retained entry
\* keeps the count the sensor had when the entry was appended, the samples
\* the detector reads at a tick are the counts of earlier ticks, and the
\* tick's own reading enters the history after detection.
C16_EntriesKeepCount ==
    last.op = "process_step" =>
        LET history == sensor_data_history["S1"]
        IN /\ Len(history) = Len(last.appended)
           /\ \A i \in 1..Len(history) : objects[history[i]].vehicle_count = last.appended[i]
           /\ Len(last.pre) >= 5 =>
                  last.samples = LastN(SubSeq(last.appended, 1, Len(last.appended) - 1), 10)
           /\ history = Append(last.pre, 1)

(***************************************************************************)
(* Properties of the analytics (checked under SpecAnalytics).              *)
(***************************************************************************)
Analysed == last.op = "process_sensor_data"
ActiveAddresses == {a \in 1..Len(objects) : objects[a].is_active}
ActiveQueue == Sum([a \in 1..Len(objects) |-> IF objects[a].is_active THEN objects[a].queue_length ELSE 0])
ActiveSpeed == Sum([a \in 1..Len(objects) |-> IF objects[a].is_active THEN objects[a].average_speed ELSE 0])

\* C19 as stated: for every snapshot, some or all sensors inactive included,
\* total_vehicles is the sum of vehicle_count over all sensors.
C19_TotalCountsAllSensors ==
    Analysed => last.processed_data.total_vehicles = SumCount(objects)

\* C20: congestion_level is within [0, 1] and equals min(1, mean queue of
\* the active sensors / 10); average_speed is the mean speed of the active
\* sensors; with no sensor or no active sensor both are 0.
C20_CongestionAndSpeed ==
    Analysed =>
        LET k == Cardinality(ActiveAddresses)
            congestion_level == last.processed_data.congestion_level
            average_speed == last.processed_data.average_speed
        IN /\ RLe(R(0, 1), congestion_level) /\ RLe(congestion_level, R(1, 1))
           /\ k = 0 => /\ congestion_level = R(0, 1)
                       /\ average_speed = R(0, 1)
           /\ k > 0 => /\ IF ActiveQueue >= 10 * k
                          THEN REq(congestion_level, R(1, 1))
                          ELSE REq(congestion_level, R(ActiveQueue, 10 * k))
                       /\ REq(average_speed, R(ActiveSpeed, k))

\* One active sensor and one inactive sensor with another queue and speed.
C20_Witness ==
    /\ Analysed /\ Len(objects) = 2
    /\ objects[1].is_active /\ ~objects[2].is_active
    /\ objects[1].queue_length = 4 /\ objects[2].queue_length = 15
    /\ objects[1].average_speed = 20 /\ objects[2].average_speed = 50
    /\ REq(last.processed_data.congestion_level, R(2, 5))
    /\ REq(last.processed_data.average_speed, R(20, 1))

(***************************************************************************)
(* Properties of the emergency system (checked under SpecPriority and      *)
(* SpecEmergency).                                                         *)
(***************************************************************************)
\* The weather factors in tenths, and the base priorities, as tables.
FactorTenths(weather) ==
    CASE weather = "RAIN" -> 12
      [] weather = "SNOW" -> 15
      [] weather = "FOG" -> 18
      [] weather = "STORM" -> 25
      [] OTHER -> 10

BaseOf(level) ==
    CASE level = "LOW" -> 1
      [] level = "MEDIUM" -> 3
      [] level = "HIGH" -> 7
      [] level = "CRITICAL" -> 10
      [] OTHER -> 0

\* C23: calculate_priority returns the integer part of (base(level) + 5 for
\* the EMERGENCY type) x weatherFactor(weather), the factor being 1.0 for
\* NIGHT; an EMERGENCY vehicle of level HIGH in a STORM gets 30.
C23_PriorityFormula ==
    last.op = "calculate_priority" =>
        LET v == last.vehicle
            bonus == IF v.type = "EMERGENCY" THEN 5 ELSE 0
        IN /\ last.priority = ((BaseOf(v.emergency_level) + bonus) * FactorTenths(last.weather)) \div 10
           /\ (v.type = "EMERGENCY" /\ v.emergency_level = "HIGH" /\ last.weather = "STORM")
                  => last.priority = 30

\* A product that is not an integer: (3 + 5) x 1.8 = 14.4.
C23_Witness ==
    /\ last.op = "calculate_priority"
    /\ last.vehicle.type = "EMERGENCY" /\ last.vehicle.emergency_level = "MEDIUM"
    /\ last.weather = "FOG"
    /\ last.priority = 14

(***************************************************************************)
(* Properties of process_step (checked under SpecStep, SpecPerturb and     *)
(* SpecLog).                                                               *)
(***************************************************************************)
RECURSIVE SumTotals(_)
SumTotals(log) ==
    IF log = <<>> THEN 0 ELSE Head(log).analytics.total_vehicles + SumTotals(Tail(log))

\* C30 as stated: the total-vehicles-processed metric is the sum, over the
\* ticks run so far, of each tick's analytics total_vehicles.
C30_TotalIsCumulative ==
    (last.op = "process_step" /\ Len(step_log) = current_step) =>
        metrics.total_vehicles_processed = SumTotals(step_log)

Handled == last.op = "handle_emergency_vehicle"
Unregistered == last.op = "unregister_emergency_vehicle"
Stepped == last.op = "process_step"
IdsOf(active) == {active[i].id : i \in 1..Len(active)}

\* C21: handling a vehicle whose emergency level is NONE is rejected, of
\* whatever type and however often: registration returns False, the result
\* has success = False and a message, and the registry, the routes, the
\* vehicle's priority and the emergency_responses metric stay as they were.
C21_NonEmergencyRejected ==
    (Handled /\ last.vehicle.emergency_level = "NONE") =>
        /\ ~last.registered
        /\ ~last.result.success
        /\ "message" \in DOMAIN last.result
        /\ active_emergencies = last.pre.active
        /\ priority_routes = last.pre.routes
        /\ last.vehicle_after.priority = last.vehicle.priority
        /\ metrics.emergency_responses = last.pre.metrics.emergency_responses

\* A non-emergency vehicle of the EMERGENCY type, under an id that is
\* registered, after an earlier call was rejected or accepted.
C21_Witness ==
    /\ Handled /\ last.vehicle.emergency_level = "NONE"
    /\ last.vehicle.type = "EMERGENCY"
    /\ last.vehicle.id \in IdsOf(last.pre.active)
    /\ ~last.result.success
    /\ active_emergencies = last.pre.active

\* C22: unregistering an absent id returns False and leaves the registry
\* unchanged; unregistering a registered id returns True and removes that
\* entry only, so that the id is absent afterwards; no two entries of the
\* registry share an id, however often an id is registered.
C22_UnregisterAndKeyedById ==
    /\ \A i, j \in 1..Len(active_emergencies) :
          active_emergencies[i].id = active_emergencies[j].id => i = j
    /\ Unregistered =>
          IF last.vehicle_id \in IdsOf(last.pre.active)
          THEN /\ last.result
               /\ Len(active_emergencies) = Len(last.pre.active) - 1
               /\ last.vehicle_id \notin IdsOf(active_emergencies)
               /\ \A i \in 1..Len(last.pre.active) :
                     last.pre.active[i].id # last.vehicle_id =>
                        \E j \in 1..Len(active_emergencies) :
                           active_emergencies[j] = last.pre.active[i]
          ELSE /\ ~last.result
               /\ active_emergencies = last.pre.active

\* One of two registered vehicles is unregistered.
C22_Witness ==
    /\ Unregistered /\ last.result
    /\ Len(last.pre.active) = 2
    /\ last.vehicle_id = last.pre.active[1].id
    /\ active_emergencies = <<last.pre.active[2]>>

\* The score of a vehicle against a weather, from the tables.
ScoreIn(v, weather) ==
    ((BaseOf(v.emergency_level) + (IF v.type = "EMERGENCY" THEN 5 ELSE 0))
        * FactorTenths(weather)) \div 10

\* priority_vehicle is the first vehicle of the registry whose score
\* against the weather is maximal.
FirstMaximal(priority_vehicle, active, weather) ==
    /\ Len(priority_vehicle) = 1
    /\ \E k \in 1..Len(active) :
          /\ priority_vehicle[1] = active[k]
          /\ \A j \in 1..Len(active) : ScoreIn(active[j], weather) <= ScoreIn(active[k], weather)
          /\ \A j \in 1..(k - 1) : ScoreIn(active[j], weather) < ScoreIn(active[k], weather)

\* C24: get_highest_priority_vehicle returns None for an empty registry and
\* otherwise a registered vehicle of maximal score, the first in insertion
\* order among those of maximal score.
C24_HighestPriorityFirst ==
    Stepped =>
        IF last.pre.active = <<>> THEN last.priority_vehicle = <<>>
        ELSE FirstMaximal(last.priority_vehicle, last.pre.active, "CLEAR")

\* Two vehicles of equal score, V2 registered first: V2 is returned.
C24_Witness ==
    /\ Stepped /\ Len(last.pre.active) = 2
    /\ last.pre.active[1].id = "V2"
    /\ ScoreIn(last.pre.active[1], "CLEAR") = ScoreIn(last.pre.active[2], "CLEAR")
    /\ last.priority_vehicle = <<last.pre.active[1]>>

\* C25: the dominant vehicle a tick uses has the highest score among the
\* registered vehicles when the scores are computed against the weather of
\* the tick, and is the vehicle that selecting by those scores picks.
C25_DominantUnderCurrentWeather ==
    (Stepped /\ last.pre.active # <<>>) =>
        FirstMaximal(last.priority_vehicle, last.pre.active, last.pre.weather)

\* A storm, and the later of two registered vehicles scores higher.
C25_Witness ==
    /\ Stepped /\ last.pre.weather = "STORM"
    /\ Len(last.pre.active) = 2
    /\ ScoreIn(last.pre.active[1], "STORM") < ScoreIn(last.pre.active[2], "STORM")
    /\ last.priority_vehicle = <<last.pre.active[2]>>

\* C26: every registered vehicle has an emergency level other than NONE;
\* the level a tick passes to the controllers is NONE iff the registry is
\* empty at that tick; the snapshot's active_emergencies is the registry
\* size.
C26_LevelNoneIffEmpty ==
    /\ \A i \in 1..Len(active_emergencies) : active_emergencies[i].emergency_level # "NONE"
    /\ Stepped =>
          /\ (last.emergency_level = "NONE") <=> (last.pre.active = <<>>)
          /\ step_log[Len(step_log)].active_emergencies = Len(active_emergencies)
          /\ (last.emergency_level # "NONE" /\ intersections # <<>>) =>
                light = update_state(last.controller, current_step, objects, last.pre.weather,
                                     last.emergency_level, FALSE, FALSE, FALSE).self

\* A tick with one vehicle left of two registered.
C26_Witness ==
    /\ Stepped /\ Len(last.pre.active) = 1
    /\ last.pre.metrics.emergency_responses = 2
    /\ last.emergency_level # "NONE"
    /\ step_log[Len(step_log)].active_emergencies = 1

\* C27: generate_priority_route returns the ids of the first min(3, n) of the
\* n intersections, whatever the vehicle, stores the list against the
\* vehicle id in place of any route stored for it, and leaves the routes of
\* the other ids as they were.
C27_RouteFirstThree ==
    (Handled /\ last.registered) =>
        LET n == Len(intersections)
            k == IF n < 3 THEN n ELSE 3
        IN /\ last.result.route = [i \in 1..k |-> intersections[i]]
           /\ DOMAIN priority_routes = DOMAIN last.pre.routes \cup {last.vehicle.id}
           /\ priority_routes[last.vehicle.id] = last.result.route
           /\ \A id \in DOMAIN last.pre.routes :
                 id # last.vehicle.id => priority_routes[id] = last.pre.routes[id]

\* A route of two intersections is replaced by a route of three, with four
\* intersections known.
C27_Witness ==
    /\ Handled /\ last.registered
    /\ last.vehicle.id \in DOMAIN last.pre.routes
    /\ last.pre.routes[last.vehicle.id] = <<"I1", "I2">>
    /\ Len(intersections) = 4
    /\ priority_routes[last.vehicle.id] = <<"I1", "I2", "I3">>

\* C28: after a tick every sensor has vehicle_count >= 0, average_speed in
\* [5, 80] and queue_length in [0, 20]; vehicle_count is the old count plus
\* an integer of [-2, 3], raised to 0 if negative, and queue_length the old
\* length plus an integer of [-1, 2], kept within [0, 20]; the tick neither
\* creates nor destroys a sensor.
C28_SensorRanges ==
    last.op = "process_step" =>
        /\ Len(objects) = Len(last.pre)
        /\ \A i \in 1..Len(objects) :
              LET new == objects[i]
                  old == last.pre[i]
              IN /\ new.id = old.id /\ new.is_active = old.is_active
                 /\ new.vehicle_count >= 0
                 /\ new.average_speed >= 5 /\ new.average_speed <= 80
                 /\ new.queue_length >= 0 /\ new.queue_length <= 20
                 /\ \E d \in -2..3 :
                       new.vehicle_count = (IF old.vehicle_count + d < 0 THEN 0
                                            ELSE old.vehicle_count + d)
                 /\ \E d \in -1..2 :
                       new.queue_length = (IF old.queue_length + d < 0 THEN 0
                                           ELSE IF old.queue_length + d > 20 THEN 20
                                           ELSE old.queue_length + d)

\* Two sensors, each held at a limit its draw would have crossed.
C28_Witness ==
    /\ last.op = "process_step" /\ Len(objects) = 2
    /\ last.draws[1] = <<-2, -5, -1>> /\ last.draws[2] = <<3, 5, 2>>
    /\ objects[1].vehicle_count = 0 /\ objects[1].average_speed = 5
    /\ objects[1].queue_length = 0
    /\ objects[2].vehicle_count = 8 /\ objects[2].average_speed = 80
    /\ objects[2].queue_length = 20

\* C29: each process_step advances the tick counter by 1 and appends one
\* snapshot whose step is the new counter; the step log holds at most 1000
\* snapshots, the most recent ones in tick order with consecutive steps, and
\* the snapshots it held before the step are as they were, less the oldest
\* when the log was full.
C29_StepLogBounded ==
    last.op = "process_step" =>
        LET n == Len(step_log)
            m == Len(last.pre_log)
        IN /\ current_step = last.pre_step + 1
           /\ n = (IF current_step <= 1000 THEN current_step ELSE 1000)
           /\ step_log[n].step = current_step
           /\ \A i \in 1..n : step_log[i].step = current_step - n + i
           /\ IF m < 1000
              THEN SubSeq(step_log, 1, n - 1) = last.pre_log
              ELSE SubSeq(step_log, 1, n - 1) = SubSeq(last.pre_log, 2, m)

\* The step after the log became full: the snapshot of step 1 is gone.
C29_Witness ==
    /\ last.op = "process_step"
    /\ current_step = 1001
    /\ Len(last.pre_log) = 1000 /\ last.pre_log[1].step = 1
    /\ Len(step_log) = 1000 /\ step_log[1].step = 2

(***************************************************************************)
(* Properties of the flags, the overrides, the recovery, the status query   *)
(* and the threads.                                                        *)
(***************************************************************************)
\* C35 as stated: after an update_state call that no outage or scramble
\* took, the emergency_active flag is true when the call was given an
\* emergency level other than NONE and false when the level was NONE.
C35_FlagReflectsEmergency ==
    (Called /\ ~last.power_outage /\ ~last.is_scramble) =>
        (light.emergency_active <=> last.emergency_level # "NONE")

\* The least integer that is at least the rational x (x >= 0).
Ceil(x) == (x[1] + x[2] - 1) \div x[2]

\* The tick at which the state the controller was in before the latest tick,
\* entered at its state_start_time, is due to be left.
LeavingTick == last.pre.state_start_time + Max(1, Ceil(ComputedDuration))

\* C39: in the normal cycle under unchanged conditions a tick makes at most
\* one transition (the state is kept or replaced by its successor), a state
\* entered at tick s with computed duration d is left exactly at tick
\* s + max(1, ceil(d)), and state_start_time never exceeds the current tick.
C39_StateLastsCeiling ==
    /\ light.state_start_time <= current_step
    /\ Called =>
          /\ last.step <= LeavingTick
          /\ IF last.step = LeavingTick
             THEN /\ light.current_state = Successor(last.pre.current_state)
                  /\ light.state_start_time = last.step
             ELSE /\ light.current_state = last.pre.current_state
                  /\ light.state_start_time = last.pre.state_start_time

\* A YELLOW of duration 0 left one tick after it was entered, in a cycle
\* whose PRE_GREEN of duration 1.5 lasted two ticks before GREEN was entered.
C39_Witness ==
    /\ Called
    /\ last.pre.current_state = "YELLOW" /\ light.current_state = "RED"
    /\ REq(ComputedDuration, R(0, 1))
    /\ last.step = last.pre.state_start_time + 1
    /\ light.cycle_count = 1

\* The scenario flags of the system that are set.
FlagsSet ==
    {f \in {"power_outage", "is_rush_hour", "is_pedestrian_scramble"} :
        CASE f = "power_outage" -> self_power_outage
          [] f = "is_rush_hour" -> self_is_rush_hour
          [] f = "is_pedestrian_scramble" -> is_pedestrian_scramble}

\* C38: after any sequence of load_scenario and update_weather calls at most
\* one of the three scenario flags is set and the status is FAILURE exactly
\* when the power-outage flag is set and NORMAL otherwise; right after
\* load_scenario(s) the weather is RAIN, SNOW, FOG or NIGHT for HEAVY_RAIN,
\* SNOW_BLIZZARD, DENSE_FOG or NIGHT and CLEAR for every other scenario.
C38_ScenarioFlags ==
    /\ Cardinality(FlagsSet) <= 1
    /\ system_status = (IF self_power_outage THEN "FAILURE" ELSE "NORMAL")
    /\ last.op = "load_scenario" =>
          current_weather =
             (IF last.scenario = "HEAVY_RAIN" THEN "RAIN"
              ELSE IF last.scenario = "SNOW_BLIZZARD" THEN "SNOW"
              ELSE IF last.scenario = "DENSE_FOG" THEN "FOG"
              ELSE IF last.scenario = "NIGHT" THEN "NIGHT"
              ELSE "CLEAR")

\* POWER_OUTAGE loaded on a system whose weather update_weather had set to
\* SNOW: the weather is back to CLEAR and the status is FAILURE.
C38_Witness ==
    /\ last.op = "load_scenario" /\ last.scenario = "POWER_OUTAGE"
    /\ last.pre_weather = "SNOW"
    /\ current_weather = "CLEAR"
    /\ self_power_outage /\ system_status = "FAILURE"

\* The controllers of the system: the one of the intersection added before
\* the run, then those of the intersections added during it.
Controllers == <<light>> \o [i \in 1..Len(late_lights) |-> late_lights[i].light]

\* The same controllers before the latest tick; a controller added since
\* has no entry.
ControllersBefore == <<last.pre>> \o [i \in 1..Len(last.pre_late) |-> last.pre_late[i].light]

\* The cycle counters before the first tick of the emergency in progress.
PeriodCounts == <<last.period[1].light>> \o last.period[1].late

\* C34: a tick taken with a vehicle in the registry and neither outage nor
\* scramble set leaves every intersection GREEN, on the first such tick and
\* on every following one; and from the first such tick until the registry
\* is empty or an outage or scramble is loaded, the cycle counter of each
\* intersection increases at most once.
C34_EmergencyHoldsGreen ==
    /\ (last.op = "process_step" /\ last.emergency_tick) =>
          \A i \in 1..Len(ControllersBefore) : Controllers[i].current_state = "GREEN"
    /\ last.period # <<>> =>
          \A i \in 1..Len(Controllers) :
              Controllers[i].cycle_count <= PeriodCounts[i] + 1

\* The second tick of an emergency: the first intersection was GREEN
\* already and keeps its counter, the one added since the first tick has
\* gone from RED to GREEN.
C34_Witness ==
    /\ last.op = "process_step" /\ last.emergency_tick
    /\ last.period # <<>>
    /\ Len(Controllers) = 2 /\ Len(ControllersBefore) = 2
    /\ last.pre.current_state = "GREEN" /\ light.current_state = "GREEN"
    /\ light.state_start_time < current_step
    /\ light.cycle_count = PeriodCounts[1] + 1
    /\ ControllersBefore[2].current_state = "RED"
    /\ Controllers[2].current_state = "GREEN" /\ Controllers[2].cycle_count = 1

\* C36: whatever ticks, scenario loads, weather updates, registrations and
\* unregistrations have taken place, no controller is FLASHING_RED, and a
\* controller that is FLASHING_YELLOW and was not before the latest tick was
\* given the outage flag by that tick, whose number is even; a new
\* controller is not FLASHING_YELLOW.
C36_FlashingOnlyFromOutage ==
    \A i \in 1..Len(Controllers) :
        /\ Controllers[i].current_state # "FLASHING_RED"
        /\ Controllers[i].current_state = "FLASHING_YELLOW" =>
              /\ i <= Len(ControllersBefore)
              /\ last.op = "process_step"
              /\ ControllersBefore[i].current_state # "FLASHING_YELLOW" =>
                    (last.outage_tick /\ current_step % 2 = 0)

\* An outage tick with an even number took a controller held GREEN by an
\* emergency to FLASHING_YELLOW, after a weather update and a registration.
C36_Witness ==
    /\ last.op = "process_step" /\ last.outage_tick /\ current_step % 2 = 0
    /\ last.pre.current_state = "GREEN" /\ light.current_state = "FLASHING_YELLOW"
    /\ active_emergencies # <<>>
    /\ step_log[1].weather = "RAIN"

\* The ticks of one full cycle at the longest durations of the configuration.
RecoverHorizon ==
    Ceil(light.config.max_green_time) + Ceil(light.config.default_yellow_time)
    + Ceil(light.config.default_red_time) + Ceil(light.config.default_pre_green_time)

\* The overrides have ended and the run has a full cycle of ticks ahead.
Recovering == last.quiet /\ current_step + RecoverHorizon <= RecoverTicks

\* The state the normal cycle moves a state to.
CycleNext(state) == IF state = "FLASHING_YELLOW" THEN "RED" ELSE Successor(state)

\* C37: once the overrides have ended and ticks keep occurring, a controller
\* left in any state moves on to the next state of the cycle (RED from
\* FLASHING_YELLOW), so that it enters GREEN again whenever it is not GREEN
\* and leaves GREEN whenever it is, and no tick moves it anywhere but to the
\* next state of the cycle.
C37_RecoversToCycle ==
    /\ \A state \in {"RED", "PRE_GREEN", "GREEN", "YELLOW", "FLASHING_YELLOW"} :
          (Recovering /\ light.current_state = state)
             ~> (light.current_state = CycleNext(state))
    /\ (Recovering /\ light.current_state # "GREEN") ~> (light.current_state = "GREEN")
    /\ [][last.quiet =>
             light'.current_state \in {light.current_state, CycleNext(light.current_state)}]_vars

\* A controller left FLASHING_YELLOW by an outage, with a state_start_time
\* from before the outage, that has entered GREEN twice since.
C37_Witness ==
    /\ last.quiet /\ last.left_in = "FLASHING_YELLOW"
    /\ last.left_start < last.left_at
    /\ light.current_state = "GREEN"
    /\ light.cycle_count = last.left_count + 2

\* C33 as stated: a status query leaves the history of every sensor as it
\* was, so that after any interleaving of ticks and queries the history of
\* the sensor holds exactly one entry per tick.
C33_StatusIsReadOnly ==
    /\ last.op = "get_system_status" => sensor_data_history = last.pre_history
    /\ Len(WithKey(sensor_data_history, "S1")["S1"]) = current_step

\* C31 as stated: a fault raised inside a tick does not leave process_step,
\* and the periodic loop goes on to the next tick: no simulation thread is
\* ever ended by an exception.
C31_FaultIsCaught == \A i \in 1..Len(threads) : threads[i] # "crashed"

\* The executions of process_step in progress.
InProgress ==
    Cardinality({i \in 1..Len(threads) : threads[i] = "step"})
    + (IF main_pc = "step" THEN 1 ELSE 0)

\* C32 as stated: whatever the interleaving of the simulation threads
\* (a start after a stop whose thread has not yet exited included) and of
\* single_step, at most one execution of process_step is in progress.
C32_OneStepAtATime == InProgress <= 1

====
